---- MODULE Spec2Model ----
(***************************************************************************)
(* A model of HtmlCompare's core (src/core_logic.py, class HTMLComparator): *)
(* the word diff (_analyze_char_word_changes), the similarity ratio         *)
(* (_calculate_text_similarity, difflib.SequenceMatcher), the locate-and-   *)
(* highlight search (_find_and_highlight_text_by_content) with its sequence *)
(* fallback, and the loop that annotates both trees                         *)
(* (_apply_highlights_to_html).                                             *)
(*                                                                          *)
(* A text is a sequence of one-character strings.  A score is an exact      *)
(* rational <<numerator, denominator>> in lowest terms.                     *)
(***************************************************************************)
EXTENDS Integers, Sequences, FiniteSets, TLC

VARIABLES
    pc,          \* which entry point is running and how far it is
    text1,       \* first text argument of the function under check
    text2,       \* second text argument of the function under check
    out,         \* value returned by the function under check (a locate call: the call
                 \* record; the two passes: what the calls of each returned)
    soup,        \* a single locate call: the tree it is given, then the tree it leaves
    target_text, \* a single locate call: the target
    context,     \* a single locate call: <<context_before, context_after>>
    soup_before, \* the parsed before-document: its text nodes in document order
    soup_after,  \* the parsed after-document
    changes,     \* the hunks of analyze_changes, each gaining highlighting_result
    idx,         \* loop index i of _apply_highlights_to_html
    nextId,      \* next unused node identity (soup.new_tag)
    before,      \* the uploaded before-document, as a parse of it reads
    after        \* the uploaded after-document

vars == <<pc, text1, text2, out, soup, target_text, context,
          soup_before, soup_after, changes, idx, nextId, before, after>>

None == "None"

(***************************************************************************)
(* Sequence helpers                                                         *)
(***************************************************************************)
Slice(s, lo, hi) == [k \in 1..(hi - lo) |-> s[lo + k]]  \* python s[lo:hi], 0-based

RECURSIVE Concat(_)
Concat(ss) == IF ss = <<>> THEN <<>> ELSE Head(ss) \o Concat(Tail(ss))

RECURSIVE Join(_)
Join(ws) ==                                              \* python " ".join(ws)
    IF ws = <<>> THEN <<>>
    ELSE IF Len(ws) = 1 THEN ws[1]
    ELSE ws[1] \o <<" ">> \o Join(Tail(ws))

\* python `t in s` for texts
Contains(s, t) ==
    \E i \in 0..(Len(s) - Len(t)) : Slice(s, i, i + Len(t)) = t

(***************************************************************************)
(* Whitespace: \s of re and str.strip()/split() both treat the space and    *)
(* the non-breaking space ("_" here) as whitespace.                         *)
(***************************************************************************)
IsSpace(c) == c \in {" ", "_"}

RECURSIVE LStrip(_)
LStrip(s) == IF s # <<>> /\ IsSpace(Head(s)) THEN LStrip(Tail(s)) ELSE s

RECURSIVE RStrip(_)
RStrip(s) == IF s # <<>> /\ IsSpace(s[Len(s)]) THEN RStrip(SubSeq(s, 1, Len(s) - 1)) ELSE s

Strip(s) == RStrip(LStrip(s))                            \* str.strip()

RECURSIVE Collapse(_)
Collapse(s) ==                                           \* re.sub(r'\s+', ' ', s)
    IF s = <<>> THEN <<>>
    ELSE IF IsSpace(Head(s)) THEN <<" ">> \o Collapse(LStrip(s))
    ELSE <<Head(s)>> \o Collapse(Tail(s))

ReplaceNbsp(s) == [k \in 1..Len(s) |-> IF s[k] = "_" THEN " " ELSE s[k]]

\* re.sub(r'\s+', ' ', text.replace(' ', ' ')).strip()
CleanText(s) == Strip(Collapse(ReplaceNbsp(s)))

\* re.sub(r'\s+', ' ', element.replace(' ', ' ').strip())
NodeText(s) == Collapse(Strip(ReplaceNbsp(s)))

RECURSIVE Split(_)
Split(s) ==                                              \* str.split()
    LET t == LStrip(s)
        n == IF \E k \in 1..Len(t) : IsSpace(t[k])
             THEN (CHOOSE k \in 1..Len(t) : IsSpace(t[k]) /\ \A m \in 1..(k - 1) : ~IsSpace(t[m])) - 1
             ELSE Len(t)
    IN  IF t = <<>> THEN <<>>
        ELSE <<SubSeq(t, 1, n)>> \o Split(SubSeq(t, n + 1, Len(t)))

(***************************************************************************)
(* Exact rationals: non-negative, in lowest terms                           *)
(***************************************************************************)
RECURSIVE Gcd(_, _)
Gcd(a, b) == IF b = 0 THEN a ELSE Gcd(b, a % b)

Rat(n, d) == LET g == Gcd(n, d) IN IF n = 0 THEN <<0, 1>> ELSE <<n \div g, d \div g>>
RAddOver(x, y, g) ==                                     \* over the common denominator
    Rat(x[1] * (y[2] \div g) + y[1] * (x[2] \div g), (x[2] \div g) * y[2])
RAdd(x, y) == RAddOver(x, y, Gcd(x[2], y[2]))
RMul(x, y) == Rat(x[1] * y[1], x[2] * y[2])

\* a/b >= c/d for a, c >= 0 and b, d > 0, by whole parts and then remainders
\* (the cross products do not fit the integers of the checker)
RECURSIVE FracGe(_, _, _, _)
FracGe(a, b, c, d) ==
    IF a \div b # c \div d THEN a \div b > c \div d
    ELSE IF c % d = 0 THEN TRUE
    ELSE IF a % b = 0 THEN FALSE
    ELSE FracGe(d, c % d, b, a % b)

RGe(x, y) == FracGe(x[1], x[2], y[1], y[2])
RGt(x, y) == ~FracGe(y[1], y[2], x[1], x[2])
RMin(x, y) == IF RGe(x, y) THEN y ELSE x
Zero == <<0, 1>>
One == <<1, 1>>

(***************************************************************************)
(* difflib.SequenceMatcher(None, a, b) with no junk (autojunk only acts on  *)
(* sequences of 200 elements or more).  Indices are python's, 0-based.      *)
(***************************************************************************)
RECURSIVE CommonLen(_, _, _, _, _, _)
CommonLen(a, b, i, j, ahi, bhi) ==
    IF i < ahi /\ j < bhi /\ a[i + 1] = b[j + 1]
    THEN 1 + CommonLen(a, b, i + 1, j + 1, ahi, bhi)
    ELSE 0

\* the length of the common block that starts at each pair of equal elements
\* of a[alo:ahi] and b[blo:bhi]
BlockSizes(a, b, alo, ahi, blo, bhi) ==
    [p \in {q \in (alo..(ahi - 1)) \X (blo..(bhi - 1)) : a[q[1] + 1] = b[q[2] + 1]} |->
        CommonLen(a, b, p[1], p[2], ahi, bhi)]

\* Of the longest blocks the one starting earliest in a, of those the one
\* starting earliest in b; <<alo, blo, 0>> when no element is shared.
LongestBlock(size, alo, blo) ==
    IF DOMAIN size = {} THEN <<alo, blo, 0>>
    ELSE LET best == CHOOSE p \in DOMAIN size : \A q \in DOMAIN size :
                         \/ size[q] < size[p]
                         \/ /\ size[q] = size[p]
                            /\ (p[1] < q[1] \/ (p[1] = q[1] /\ p[2] <= q[2]))
         IN  <<best[1], best[2], size[best]>>

find_longest_match(a, b, alo, ahi, blo, bhi) ==
    LongestBlock(BlockSizes(a, b, alo, ahi, blo, bhi), alo, blo)

\* get_matching_blocks' queue: the longest block m of a window, then the
\* windows to its left and to its right
RECURSIVE MatchingBlocksIn(_, _, _, _, _, _)
RECURSIVE BlocksAround(_, _, _, _, _, _, _)
BlocksAround(a, b, alo, ahi, blo, bhi, m) ==
    IF m[3] = 0 THEN <<>>
    ELSE (IF alo < m[1] /\ blo < m[2]
          THEN MatchingBlocksIn(a, b, alo, m[1], blo, m[2]) ELSE <<>>)
         \o <<m>>
         \o (IF m[1] + m[3] < ahi /\ m[2] + m[3] < bhi
             THEN MatchingBlocksIn(a, b, m[1] + m[3], ahi, m[2] + m[3], bhi) ELSE <<>>)

MatchingBlocksIn(a, b, alo, ahi, blo, bhi) ==
    BlocksAround(a, b, alo, ahi, blo, bhi, find_longest_match(a, b, alo, ahi, blo, bhi))

\* Adjacent equal blocks are merged into one.
RECURSIVE MergeBlocks(_, _)
MergeBlocks(cur, rest) ==
    IF rest = <<>> THEN (IF cur[3] > 0 THEN <<cur>> ELSE <<>>)
    ELSE LET n == Head(rest)
         IN  IF cur[1] + cur[3] = n[1] /\ cur[2] + cur[3] = n[2]
             THEN MergeBlocks(<<cur[1], cur[2], cur[3] + n[3]>>, Tail(rest))
             ELSE (IF cur[3] > 0 THEN <<cur>> ELSE <<>>) \o MergeBlocks(n, Tail(rest))

get_matching_blocks(a, b) ==
    MergeBlocks(<<0, 0, 0>>, MatchingBlocksIn(a, b, 0, Len(a), 0, Len(b)))
        \o <<<<Len(a), Len(b), 0>>>>

RECURSIVE SumSizes(_)
SumSizes(blocks) == IF blocks = <<>> THEN 0 ELSE Head(blocks)[3] + SumSizes(Tail(blocks))

\* the matches taken over the length of a alone
RatioOverFirst(a, b) ==
    IF Len(a) + Len(b) = 0 THEN One
    ELSE IF Len(a) = 0 THEN Zero
    ELSE Rat(SumSizes(get_matching_blocks(a, b)), Len(a))

\* SequenceMatcher.ratio(): 2.0 * matches / (len(a) + len(b)), 1.0 for two empty sequences
ratio(a, b) ==
    IF Len(a) + Len(b) = 0 THEN One
    ELSE Rat(2 * SumSizes(get_matching_blocks(a, b)), Len(a) + Len(b))

\* SequenceMatcher.get_opcodes(): <<tag, i1, i2, j1, j2>>
RECURSIVE OpcodesFrom(_, _, _)
OpcodesFrom(blocks, i, j) ==
    IF blocks = <<>> THEN <<>>
    ELSE LET ai == Head(blocks)[1]
             bj == Head(blocks)[2]
             size == Head(blocks)[3]
             tag == IF i < ai /\ j < bj THEN "replace"
                    ELSE IF i < ai THEN "delete"
                    ELSE IF j < bj THEN "insert"
                    ELSE ""
         IN  (IF tag # "" THEN <<<<tag, i, ai, j, bj>>>> ELSE <<>>)
             \o (IF size > 0 THEN <<<<"equal", ai, ai + size, bj, bj + size>>>> ELSE <<>>)
             \o OpcodesFrom(Tail(blocks), ai + size, bj + size)

\* a replace given as a delete followed by an insert
RECURSIVE SplitReplace(_)
SplitReplace(ops) ==
    IF ops = <<>> THEN <<>>
    ELSE LET op == Head(ops)
         IN  (IF op[1] = "replace"
              THEN << <<"delete", op[2], op[3], op[4], op[4]>>,
                      <<"insert", op[3], op[3], op[4], op[5]>> >>
              ELSE <<op>>)
             \o SplitReplace(Tail(ops))

OpcodesSplitReplace(a, b) == SplitReplace(OpcodesFrom(get_matching_blocks(a, b), 0, 0))

\* no matching block found
OpcodesWithoutBlocks(a, b) == OpcodesFrom(<<<<Len(a), Len(b), 0>>>>, 0, 0)

get_opcodes(a, b) == OpcodesFrom(get_matching_blocks(a, b), 0, 0)

(***************************************************************************)
(* HTMLComparator._calculate_text_similarity                                *)
(***************************************************************************)
_calculate_text_similarity(t1, t2) ==
    IF t1 = <<>> \/ t2 = <<>> THEN Zero
    ELSE ratio(Collapse(Strip(t1)), Collapse(Strip(t2)))

(***************************************************************************)
(* The document tree (BeautifulSoup).  A tree is the sequence of its text   *)
(* nodes in document order (soup.find_all(text=True)); a text node is       *)
(* [text, path], path being its ancestors from the root down to its parent, *)
(* each [id, tag, cls].  An element without text below it has no trace.     *)
(***************************************************************************)
Elem(i, t, c) == [id |-> i, tag |-> t, cls |-> c]
Root == Elem(0, "[document]", "")

Parent(n) == n.path[Len(n.path)]                          \* element.parent
HasGrand(n) == Len(n.path) >= 2                           \* element.parent.parent is not None
Grand(n) == n.path[Len(n.path) - 1]                       \* element.parent.parent

\* the text nodes below the element with identity id, in document order
Under(tree, id) ==
    SelectSeq([k \in 1..Len(tree) |-> k],
              LAMBDA k : \E d \in 1..Len(tree[k].path) : tree[k].path[d].id = id)

DepthOf(n, id) == CHOOSE d \in 1..Len(n.path) : n.path[d].id = id

\* Tag.get_text(): the strings below it, concatenated
get_text(tree, id) ==
    LET u == Under(tree, id) IN Concat([k \in 1..Len(u) |-> tree[u[k]].text])

\* soup.get_text(): every string of the document except those of script and
\* style elements
soup_get_text(tree) ==
    LET u == SelectSeq([k \in 1..Len(tree) |-> k],
                       LAMBDA k : Parent(tree[k]).tag \notin {"script", "style"})
    IN  Concat([k \in 1..Len(u) |-> tree[u[k]].text])

\* Tag.__eq__ compares name, attributes and contents, not identity: the
\* contents of an element as a value that no longer holds node identities
Contents(tree, id) ==
    LET u == Under(tree, id)
        below(k) == LET n == tree[u[k]] IN Slice(n.path, DepthOf(n, id), Len(n.path))
        first(x) == CHOOSE k \in 1..Len(u) :
                        /\ \E d \in 1..Len(below(k)) : below(k)[d].id = x
                        /\ \A m \in 1..(k - 1) : \A d \in 1..Len(below(m)) : below(m)[d].id # x
    IN  [k \in 1..Len(u) |->
            <<[d \in 1..Len(below(k)) |->
                  <<first(below(k)[d].id), below(k)[d].tag, below(k)[d].cls>>],
              tree[u[k]].text>>]

TagEq(tree, e1, e2) ==
    \/ e1.id = e2.id
    \/ /\ e1.tag = e2.tag
       /\ e1.cls = e2.cls
       /\ Contents(tree, e1.id) = Contents(tree, e2.id)

RECURSIVE Dedup(_)
Dedup(s) ==
    IF s = <<>> THEN <<>>
    ELSE LET r == Dedup(SubSeq(s, 1, Len(s) - 1))
             x == s[Len(s)]
         IN  IF \E k \in 1..Len(r) : r[k] = x THEN r ELSE Append(r, x)

\* parent_tr.find_all('td'): the td elements below the row, in document order
find_all_td(tree, trId) ==
    LET u == Under(tree, trId)
        tdOf(k) == LET n == tree[u[k]]
                       d == DepthOf(n, trId)
                   IN  SelectSeq(Slice(n.path, d, Len(n.path)), LAMBDA e : e.tag = "td")
    IN  Dedup(Concat([k \in 1..Len(u) |-> tdOf(k)]))

(***************************************************************************)
(* HTMLComparator._calculate_context_match_score_with_details               *)
(***************************************************************************)
Truthy(c) == c # None /\ c # <<>>                          \* python truth of a str or None

Frac(n, d) == <<n, d>>
ABSOLUTE_THRESHOLD == Frac(1, 5)                            \* 0.2

Indices(tree) == [k \in 1..Len(tree) |-> k]

\* the text of the row the element belongs to (lines 798-820)
RowText(tree, e) ==
    LET n == tree[e]
    IN  IF HasGrand(n) /\ Grand(n).tag = "tr"
        THEN LET tds == find_all_td(tree, Grand(n).id)
             IN  Strip(Concat([k \in 1..Len(tds) |->
                                  NodeText(get_text(tree, tds[k].id)) \o <<" ">>]))
        ELSE Strip(Collapse(n.text))

\* lines 822-870: the row text against the stored context
ContextMatchScore(row_text, target, context_before, context_after) ==
    LET before_score == IF Truthy(context_before)
                        THEN RMul(_calculate_text_similarity(row_text, context_before), Frac(3, 10))
                        ELSE Zero
        after_score == IF Truthy(context_after)
                       THEN RMul(_calculate_text_similarity(row_text, context_after), Frac(3, 10))
                       ELSE Zero
        pattern == context_before \o <<" ">> \o target \o <<" ">> \o context_after
        pattern_score == IF Truthy(context_before) /\ Truthy(context_after)
                         THEN RMul(_calculate_text_similarity(row_text, pattern), Frac(4, 10))
                         ELSE Zero
    IN  RMin(RAdd(RAdd(before_score, after_score), pattern_score), One)

_calculate_context_match_score_with_details(tree, e, target, context_before, context_after) ==
    ContextMatchScore(RowText(tree, e), target, context_before, context_after)

(***************************************************************************)
(* HTMLComparator._apply_highlighting: the text node is replaced by         *)
(* <span class=css>text_content<span class="highlight-tooltip">tooltip      *)
(* </span></span>                                                           *)
(***************************************************************************)
Marker(n, text, css_class, tooltip, nid) ==
    LET span == Elem(nid, "span", css_class)
        tip == Elem(nid + 1, "span", "highlight-tooltip")
    IN  << [text |-> text, path |-> Append(n.path, span)],
           [text |-> tooltip, path |-> n.path \o <<span, tip>>] >>

ReplaceWith(tree, e, nodes) ==                              \* element.replace_with(span)
    SubSeq(tree, 1, e - 1) \o nodes \o SubSeq(tree, e + 1, Len(tree))

_apply_highlighting(tree, best_match, css_class, tooltip, nid) ==
    ReplaceWith(tree, best_match.element,
                Marker(tree[best_match.element], best_match.text, css_class, tooltip, nid))

(***************************************************************************)
(* _find_and_highlight_text_by_content, the scan for nodes that contain the *)
(* target (lines 337-391)                                                   *)
(***************************************************************************)
Scanned(tree, k) == Parent(tree[k]).tag \notin {"script", "style"}

\* lines 361-371: one entry of all_matches
Match(e, text_content, basic_similarity, context_score) ==
    [element |-> e,
     text |-> text_content,
     similarity |-> basic_similarity,
     context_score |-> context_score,
     final_score |-> RAdd(basic_similarity, RMul(context_score, Frac(1, 2)))]

\* lines 341-359
MatchOf(tree, e, text_content, target, context_before, context_after) ==
    Match(e, text_content,
          _calculate_text_similarity(text_content, target),
          IF Truthy(context_before) \/ Truthy(context_after)
          THEN _calculate_context_match_score_with_details(
                   tree, e, target, context_before, context_after)
          ELSE Zero)

AllMatches(tree, target, context_before, context_after) ==
    LET hits == SelectSeq(Indices(tree),
                    LAMBDA k : /\ Scanned(tree, k)
                               /\ NodeText(tree[k].text) # <<>>
                               /\ Contains(NodeText(tree[k].text), target))
    IN  [m \in 1..Len(hits) |->
            MatchOf(tree, hits[m], NodeText(tree[hits[m]].text), target,
                    context_before, context_after)]

\* a sort that is not stable: of equal keys the later one comes first
RECURSIVE SortLastFirst(_)
SortLastFirst(ms) ==
    IF ms = <<>> THEN <<>>
    ELSE LET rest == SortLastFirst(SubSeq(ms, 1, Len(ms) - 1))
             x == ms[Len(ms)]
             keep == SelectSeq(rest, LAMBDA y : RGt(y.final_score, x.final_score))
             drop == SelectSeq(rest, LAMBDA y : ~RGt(y.final_score, x.final_score))
         IN  keep \o <<x>> \o drop

\* list.sort(key=final_score, reverse=True): stable, equal keys keep their order
RECURSIVE SortByFinalScore(_)
SortByFinalScore(ms) ==
    IF ms = <<>> THEN <<>>
    ELSE LET rest == SortByFinalScore(SubSeq(ms, 1, Len(ms) - 1))
             x == ms[Len(ms)]
             \* x goes after every element that is not smaller than it
             keep == SelectSeq(rest, LAMBDA y : RGe(y.final_score, x.final_score))
             drop == SelectSeq(rest, LAMBDA y : ~RGe(y.final_score, x.final_score))
         IN  keep \o <<x>> \o drop

(***************************************************************************)
(* The sequence fallback (lines 394-546)                                    *)
(***************************************************************************)
\* lines 397-404: nodes whose text is part of the target, similar enough
PartialMatches(tree, target, threshold) ==
    SelectSeq(Indices(tree),
        LAMBDA k : LET text_content == NodeText(tree[k].text)
                   IN  /\ Scanned(tree, k)
                       /\ text_content # <<>>
                       /\ (Contains(target, text_content) \/ Contains(text_content, target))
                       /\ RGe(_calculate_text_similarity(text_content, target), threshold))

\* lines 420-425: elem continues the group that ends with prev
SameRow(tree, prev, elem) ==
    /\ HasGrand(tree[prev])
    /\ HasGrand(tree[elem])
    /\ TagEq(tree, Grand(tree[elem]), Grand(tree[prev]))

\* lines 409-431
RECURSIVE GroupCandidates(_, _, _)
GroupCandidates(tree, partial_matches, current_group) ==
    IF partial_matches = <<>>
    THEN (IF current_group # <<>> THEN <<current_group>> ELSE <<>>)
    ELSE LET elem == Head(partial_matches)
         IN  IF current_group = <<>>
             THEN GroupCandidates(tree, Tail(partial_matches), <<elem>>)
             ELSE IF SameRow(tree, current_group[Len(current_group)], elem)
             THEN GroupCandidates(tree, Tail(partial_matches), Append(current_group, elem))
             ELSE <<current_group>> \o GroupCandidates(tree, Tail(partial_matches), <<elem>>)

\* the last index i with tds[i] == parent, 0 for python's -1 (lines 1044-1048:
\* the loop has no break, and == is Tag.__eq__)
TdIndex(tree, parent, tds) ==
    LET eq == {i \in 1..Len(tds) : TagEq(tree, parent, tds[i])}
    IN  IF eq = {} THEN 0 ELSE CHOOSE i \in eq : \A j \in eq : j <= i

\* lines 1053-1067: the text of a neighbouring cell, None when it is empty
CellContext(tree, td) ==
    LET cell_text == NodeText(get_text(tree, td.id))
    IN  IF cell_text # <<>> THEN cell_text ELSE None

\* lines 1050-1069
ContextAroundCells(tree, tds, first_td_index, last_td_index) ==
    IF first_td_index = 0 \/ last_td_index = 0 THEN <<None, None>>
    ELSE << IF first_td_index > 1 THEN CellContext(tree, tds[first_td_index - 1]) ELSE None,
            IF last_td_index < Len(tds) THEN CellContext(tree, tds[last_td_index + 1]) ELSE None >>

\* lines 1036-1048
ContextInRow(tree, first_element, last_element, tds) ==
    IF tds = <<>> THEN <<None, None>>
    ELSE ContextAroundCells(tree, tds, TdIndex(tree, Parent(first_element), tds),
                            TdIndex(tree, Parent(last_element), tds))

\* <<before_context, after_context>>
_extract_actual_context_from_group(tree, valid_elements) ==
    LET first_element == tree[valid_elements[1]]
        last_element == tree[valid_elements[Len(valid_elements)]]
    IN  IF ~HasGrand(first_element) THEN <<None, None>>
        ELSE IF Grand(first_element).tag # "tr" THEN <<None, None>>
        ELSE ContextInRow(tree, first_element, last_element,
                          find_all_td(tree, Grand(first_element).id))

\* lines 482-496: sum(score * 0.5) / sum(0.5 for each score above 0)
GroupContextScore(before_match_score, after_match_score) ==
    IF RGt(before_match_score, Zero) /\ RGt(after_match_score, Zero)
    THEN RMul(RAdd(before_match_score, after_match_score), Frac(1, 2))
    ELSE IF RGt(before_match_score, Zero) THEN before_match_score
    ELSE IF RGt(after_match_score, Zero) THEN after_match_score
    ELSE Zero

\* lines 526-531
GroupFinalScore(base_sim, context_used, context_score) ==
    IF context_used /\ RGt(context_score, Zero)
    THEN RAdd(RMul(base_sim, Frac(2, 10)), RMul(context_score, Frac(8, 10)))
    ELSE base_sim

GroupRecord(group, group_text, base_sim, context_used, actual, context_score) ==
    [group |-> group,
     group_text |-> group_text,
     base_sim |-> base_sim,
     context_used |-> context_used,
     context_score |-> context_score,
     actual_before_context |-> actual[1],
     actual_after_context |-> actual[2],
     final_score |-> GroupFinalScore(base_sim, context_used, context_score)]

\* lines 460-480: the stored context against the cells around the group
GroupWithContext(group, group_text, base_sim, context_before, context_after, actual) ==
    GroupRecord(group, group_text, base_sim, TRUE, actual,
        GroupContextScore(
            IF Truthy(context_before) /\ Truthy(actual[1])
            THEN _calculate_text_similarity(actual[1], context_before) ELSE Zero,
            IF Truthy(context_after) /\ Truthy(actual[2])
            THEN _calculate_text_similarity(actual[2], context_after) ELSE Zero))

\* lines 450-454
GroupText(tree, group) ==
    Join([k \in 1..Len(group) |-> Collapse(Strip(tree[group[k]].text))])

GroupScored(tree, group, group_text, target, context_before, context_after) ==
    IF Truthy(context_before) \/ Truthy(context_after)
    THEN GroupWithContext(group, group_text, _calculate_text_similarity(group_text, target),
                          context_before, context_after,
                          _extract_actual_context_from_group(tree, group))
    ELSE GroupRecord(group, group_text, _calculate_text_similarity(group_text, target),
                     FALSE, <<None, None>>, Zero)

\* lines 442-531: one group's text and scores
GroupScore(tree, group, target, context_before, context_after) ==
    GroupScored(tree, group, GroupText(tree, group), target, context_before, context_after)

\* line 437: best_group = None.  Line 538 tests best_group by its truth, and
\* a group has at least one node, so the absent group is written as the
\* empty one.
NoGroup == <<>>

\* a group replaces the best one also when its score is the same
RECURSIVE BestGroupLastOfTies(_, _)
BestGroupLastOfTies(scored, best) ==
    IF scored = <<>> THEN best
    ELSE IF RGe(Head(scored).final_score, best[2]) /\ RGt(Head(scored).final_score, Zero)
    THEN BestGroupLastOfTies(Tail(scored), <<Head(scored).group, Head(scored).final_score>>)
    ELSE BestGroupLastOfTies(Tail(scored), best)

\* lines 436-536: <<best_group, best_score>> after the loop over the groups;
\* a group replaces the best one only when its score is strictly greater
RECURSIVE BestGroup(_, _)
BestGroup(scored, best) ==
    IF scored = <<>> THEN best
    ELSE IF RGt(Head(scored).final_score, best[2])
    THEN BestGroup(Tail(scored), <<Head(scored).group, Head(scored).final_score>>)
    ELSE BestGroup(Tail(scored), best)

\* lines 614-633: every node of the group becomes a marker; the i-th of n
\* carries the tooltip followed by " (<sequence> i/n)", <sequence> being a
\* three-syllable word
Digit(n) == <<"0", "1", "2", "3", "4", "5", "6", "7", "8", "9">>[n + 1]

SequenceSuffix(i, n) ==
    <<" ", "(", "SI", "KWEON", "SEU", " ", Digit(i), "/", Digit(n), ")">>

\* only the first node of the group becomes a marker
HighlightGroupFirstOnly(tree, best_group, i, css_class, tooltip, nid) ==
    IF i = 0 THEN tree
    ELSE ReplaceWith(tree, best_group[1],
             Marker(tree[best_group[1]], Strip(tree[best_group[1]].text), css_class,
                    tooltip \o SequenceSuffix(1, Len(best_group)), nid))

RECURSIVE HighlightGroup(_, _, _, _, _, _)
HighlightGroup(tree, best_group, i, css_class, tooltip, nid) ==
    \* applied from the last member to the first, so that the positions of the
    \* members still to be replaced stay valid
    IF i = 0 THEN tree
    ELSE LET e == best_group[i]
             elem_text == Strip(tree[e].text)
             marked == ReplaceWith(tree, e,
                          Marker(tree[e], elem_text, css_class,
                                 tooltip \o SequenceSuffix(i, Len(best_group)),
                                 nid + 2 * (i - 1)))
         IN  HighlightGroup(marked, best_group, i - 1, css_class, tooltip, nid)

(***************************************************************************)
(* HTMLComparator._find_and_highlight_text_by_content.  threshold is        *)
(* ABSOLUTE_THRESHOLD in every call the program makes; nid is the identity  *)
(* the next new tag gets.  The result holds success, the tree as the call   *)
(* leaves it, debug_info, and, for the properties, the positions (in the    *)
(* tree as given) of the text nodes the call replaced.                      *)
(***************************************************************************)
\* a score equal to the threshold not accepted
AcceptAbove(score, threshold) == RGt(score, threshold)
\* the threshold test left out
AcceptAny(score, threshold) == RGe(score, Zero)
\* the threshold test the wrong way round
AcceptBelow(score, threshold) == RGe(threshold, score)
Accept(score, threshold) == RGe(score, threshold)           \* lines 380 and 540

DebugInfo(note, matches_found, total_candidates, best_similarity, final_score, context_score, group_size, group_context_score) ==
    [note |-> note,
     matches_found |-> matches_found,
     total_candidates |-> total_candidates,
     best_similarity |-> best_similarity,
     final_score |-> final_score,
     context_score |-> context_score,
     group_size |-> group_size,
     group_context_score |-> group_context_score]

Outcome(success, tree, nid, stage, picked, debug_info) ==
    [success |-> success, soup |-> tree, nextId |-> nid, stage |-> stage,
     picked |-> picked, debug_info |-> debug_info]

\* lines 374-391 and 758-787: the best of a non-empty all_matches
LocatorOutcome(tree, best_match, total_candidates, css_class, tooltip, threshold, nid) ==
    IF Accept(best_match.final_score, threshold)
    THEN Outcome(TRUE, _apply_highlighting(tree, best_match, css_class, tooltip, nid),
                 nid + 2, "locator", <<best_match.element>>,
                 DebugInfo("match", 1, total_candidates, best_match.similarity,
                           best_match.final_score, best_match.context_score, 0, Zero))
    ELSE Outcome(FALSE, tree, nid, "locator", <<>>,
                 DebugInfo("below threshold", 0, total_candidates, best_match.similarity,
                           best_match.final_score, best_match.context_score, 0, Zero))

\* lines 538-703 and 758-787: best is <<best_group, best_score>>
GroupOutcome(tree, best, total_candidates, last_context_score, css_class, tooltip, threshold, nid) ==
    IF best[1] = NoGroup
    THEN Outcome(FALSE, tree, nid, "fallback", <<>>,
                 DebugInfo("no group", 0, total_candidates, Zero, Zero, Zero, 0, Zero))
    ELSE IF Accept(best[2], threshold)
    THEN Outcome(TRUE,
                 HighlightGroup(tree, best[1], Len(best[1]), css_class, tooltip, nid),
                 nid + 2 * Len(best[1]), "fallback", best[1],
                 DebugInfo("sequence match", 1, total_candidates, best[2], best[2], Zero,
                           Len(best[1]), last_context_score))
    ELSE Outcome(FALSE, tree, nid, "fallback", <<>>,
                 DebugInfo("group below threshold", 0, 0, Zero, Zero, Zero, 0, Zero))

\* lines 436-536: context_score is assigned in every iteration of the loop
\* over the groups, so after the loop it is the last group's
ScoredGroups(tree, scored, total_candidates, css_class, tooltip, threshold, nid) ==
    GroupOutcome(tree, BestGroup(scored, <<NoGroup, Zero>>), total_candidates,
                 IF scored = <<>> THEN Zero ELSE scored[Len(scored)].context_score,
                 css_class, tooltip, threshold, nid)

\* lines 408-536
GroupedCandidates(tree, target, grouped_candidates, total_candidates, css_class, tooltip, context_before, context_after, threshold, nid) ==
    ScoredGroups(tree,
                 [g \in 1..Len(grouped_candidates) |->
                     GroupScore(tree, grouped_candidates[g], target,
                                context_before, context_after)],
                 total_candidates, css_class, tooltip, threshold, nid)

\* lines 394-703
SequenceFallback(tree, target, partial_matches, css_class, tooltip, context_before, context_after, threshold, nid) ==
    GroupedCandidates(tree, target, GroupCandidates(tree, partial_matches, <<>>),
                      Len(partial_matches), css_class, tooltip,
                      context_before, context_after, threshold, nid)

\* no fallback after a scan that found nothing
ContentMatchWithoutFallback(tree, target, all_matches, css_class, tooltip, context_before, context_after, threshold, nid) ==
    IF all_matches # <<>>
    THEN LocatorOutcome(tree, all_matches[1], Len(all_matches),
                        css_class, tooltip, threshold, nid)
    ELSE Outcome(FALSE, tree, nid, "locator", <<>>,
                 DebugInfo("no match", 0, 0, Zero, Zero, Zero, 0, Zero))

\* the fallback also after a best candidate below the threshold
ContentMatchFallbackOnReject(tree, target, all_matches, css_class, tooltip, context_before, context_after, threshold, nid) ==
    IF all_matches # <<>> /\ Accept(all_matches[1].final_score, threshold)
    THEN LocatorOutcome(tree, all_matches[1], Len(all_matches),
                        css_class, tooltip, threshold, nid)
    ELSE SequenceFallback(tree, target, PartialMatches(tree, target, threshold),
                          css_class, tooltip, context_before, context_after, threshold, nid)

\* lines 374-394
ContentMatch(tree, target, all_matches, css_class, tooltip, context_before, context_after, threshold, nid) ==
    IF all_matches # <<>>
    THEN LocatorOutcome(tree, all_matches[1], Len(all_matches),
                        css_class, tooltip, threshold, nid)
    ELSE SequenceFallback(tree, target, PartialMatches(tree, target, threshold),
                          css_class, tooltip, context_before, context_after, threshold, nid)

\* the test of the target left out
FindWithoutTargetCheck(tree, target_arg, css_class, tooltip, context_before, context_after, threshold, nid) ==
    ContentMatch(tree, Strip(target_arg),
        SortByFinalScore(AllMatches(tree, Strip(target_arg), context_before, context_after)),
        css_class, tooltip, context_before, context_after, threshold, nid)

_find_and_highlight_text_by_content(tree, target_arg, css_class, tooltip, context_before, context_after, threshold, nid) ==
    IF Strip(target_arg) = <<>>
    THEN Outcome(FALSE, tree, nid, "error", <<>>,
                 DebugInfo("error", 0, 0, Zero, Zero, Zero, 0, Zero))
    ELSE ContentMatch(tree, Strip(target_arg),
             SortByFinalScore(AllMatches(tree, Strip(target_arg),
                                         context_before, context_after)),
             css_class, tooltip, context_before, context_after, threshold, nid)

(***************************************************************************)
(* HTMLComparator._analyze_char_word_changes and _calculate_word_position   *)
(***************************************************************************)
_extract_clean_text(tree) == CleanText(soup_get_text(tree))

\* the separator before the first word of the hunk not counted
WordPositionNoSeparator(full_text, words, start_idx, end_idx) ==
    IF start_idx >= Len(words) \/ end_idx > Len(words) THEN None
    ELSE LET before_text == Join(Slice(words, 0, start_idx))
             target == Join(Slice(words, start_idx, end_idx))
         IN  <<Len(before_text), Len(before_text) + Len(target)>>

_calculate_word_position(full_text, words, start_idx, end_idx) ==
    IF start_idx >= Len(words) \/ end_idx > Len(words) THEN None
    ELSE LET before_text == Join(Slice(words, 0, start_idx))
             start_pos == Len(before_text) + (IF before_text # <<>> THEN 1 ELSE 0)
             target == Join(Slice(words, start_idx, end_idx))
         IN  <<start_pos, start_pos + Len(target)>>

Max(a, b) == IF a >= b THEN a ELSE b
Min(a, b) == IF a <= b THEN a ELSE b

ContextWords == 3                                            \* lines 64-67

\* the slice of the before words taken one word short
ChangeOffByOne(before_text, before_words, after_text, after_words, op) ==
    [type |-> "text",
     status |-> op[1],
     before |-> Slice(before_words, op[2] + 1, op[3]),
     after |-> Slice(after_words, op[4], op[5]),
     before_position |-> _calculate_word_position(before_text, before_words, op[2], op[3]),
     after_position |-> _calculate_word_position(after_text, after_words, op[4], op[5]),
     before_context_before |-> <<>>,
     before_context_after |-> <<>>,
     after_context_before |-> <<>>,
     after_context_after |-> <<>>]

\* the contexts not clipped to three words
ChangeContextUnclipped(before_text, before_words, after_text, after_words, op) ==
    [type |-> "text",
     status |-> op[1],
     before |-> Slice(before_words, op[2], op[3]),
     after |-> Slice(after_words, op[4], op[5]),
     before_position |-> _calculate_word_position(before_text, before_words, op[2], op[3]),
     after_position |-> _calculate_word_position(after_text, after_words, op[4], op[5]),
     before_context_before |-> Slice(before_words, 0, op[2]),
     before_context_after |-> Slice(before_words, op[3], Len(before_words)),
     after_context_before |-> Slice(after_words, 0, op[4]),
     after_context_after |-> Slice(after_words, op[5], Len(after_words))]

\* one entry of results (lines 60-81); the key highlighting_result is added later
Change(before_text, before_words, after_text, after_words, op) ==
    LET tag == op[1]
        i1 == op[2]
        i2 == op[3]
        j1 == op[4]
        j2 == op[5]
    IN  [type |-> "text",
         status |-> tag,
         before |-> Slice(before_words, i1, i2),
         after |-> Slice(after_words, j1, j2),
         before_position |-> _calculate_word_position(before_text, before_words, i1, i2),
         after_position |-> _calculate_word_position(after_text, after_words, j1, j2),
         before_context_before |->
             IF i1 > 0 THEN Slice(before_words, Max(0, i1 - ContextWords), i1) ELSE <<>>,
         before_context_after |->
             Slice(before_words, i2, Min(Len(before_words), i2 + ContextWords)),
         after_context_before |->
             IF j1 > 0 THEN Slice(after_words, Max(0, j1 - ContextWords), j1) ELSE <<>>,
         after_context_after |->
             Slice(after_words, j2, Min(Len(after_words), j2 + ContextWords))]

\* the equal opcodes kept
AnalyzeKeepingEqual(before_html, after_html) ==
    LET before_text == _extract_clean_text(before_html)
        after_text == _extract_clean_text(after_html)
        opcodes == get_opcodes(Split(before_text), Split(after_text))
    IN  [k \in 1..Len(opcodes) |->
            Change(before_text, Split(before_text), after_text, Split(after_text), opcodes[k])]

_analyze_char_word_changes(before_html, after_html) ==
    LET before_text == _extract_clean_text(before_html)
        after_text == _extract_clean_text(after_html)
        before_words == Split(before_text)
        after_words == Split(after_text)
        opcodes == SelectSeq(get_opcodes(before_words, after_words),
                             LAMBDA op : op[1] # "equal")
    IN  [k \in 1..Len(opcodes) |->
            Change(before_text, before_words, after_text, after_words, opcodes[k])]

(***************************************************************************)
(* HTMLComparator._extract_change_context and _highlight_text_in_html       *)
(***************************************************************************)
\* the before-side contexts taken whether or not one of them is empty
ExtractContextOneSided(change) ==
    <<Join(change.before_context_before), Join(change.before_context_after)>>

\* <<context_before, context_after>>
_extract_change_context(change) ==
    IF change.before_context_before # <<>> /\ change.before_context_after # <<>>
    THEN <<Join(change.before_context_before), Join(change.before_context_after)>>
    ELSE IF change.after_context_before # <<>> /\ change.after_context_after # <<>>
    THEN <<Join(change.after_context_before), Join(change.after_context_after)>>
    ELSE <<None, None>>

RECURSIVE Str(_)
Str(n) == IF n < 10 THEN <<Digit(n)>> ELSE Str(n \div 10) \o <<Digit(n % 10)>>   \* str(n)

\* The tooltips are Korean text: "<change> N: <deleted>: ...", one element
\* per character, a syllable written here by its romanisation.
TooltipHead(change_index) ==
    <<"BYEON", "GYEONG", "SA", "HANG", " ">> \o Str(change_index + 1) \o <<":", " ">>
TooltipDeleted(change_index, before_text) ==
    TooltipHead(change_index) \o <<"SAK", "JE", "DOEM", ":", " ">> \o before_text
TooltipAdded(change_index, after_text) ==
    TooltipHead(change_index) \o <<"CHU", "GA", "DOEM", ":", " ">> \o after_text
TooltipModified(change_index, before_text, after_text) ==
    TooltipHead(change_index) \o <<"BYEON", "GYEONG", "DOEM", ":", " ">>
        \o before_text \o <<" ", "->", " ">> \o after_text

\* A call of _find_and_highlight_text_by_content as _highlight_text_in_html
\* makes it: what it was given and what it returned.
NoCall == [made |-> FALSE]
Call(tree, target, css_class, ctx, r) ==
    [made |-> TRUE, soup |-> tree, target_text |-> target, css_class |-> css_class,
     context |-> ctx, result |-> r]

LocateCall(tree, target, css_class, tooltip, ctx, nid) ==
    Call(tree, target, css_class, ctx,
         _find_and_highlight_text_by_content(
             tree, target, css_class, tooltip, ctx[1], ctx[2], ABSOLUTE_THRESHOLD, nid))

\* the flags set whether or not the search succeeded
HighlightResultAlways(original_soup_before, modified_soup_after, ctx, nid, before_call, after_call) ==
    [result |->
        [before_highlighted |-> before_call.made,
         after_highlighted |-> after_call.made,
         context_before |-> ctx[1],
         context_after |-> ctx[2],
         before_call |-> before_call,
         after_call |-> after_call],
     soup_before |-> IF before_call.made THEN before_call.result.soup
                     ELSE original_soup_before,
     soup_after |-> IF after_call.made THEN after_call.result.soup
                    ELSE modified_soup_after,
     nextId |-> IF after_call.made THEN after_call.result.nextId
                ELSE IF before_call.made THEN before_call.result.nextId
                ELSE nid]

\* The result record (lines 221-240, 249-286), the two trees as the calls
\* leave them and the next free identity.
HighlightResult(original_soup_before, modified_soup_after, ctx, nid, before_call, after_call) ==
    [result |->
        [before_highlighted |-> before_call.made /\ before_call.result.success,
         after_highlighted |-> after_call.made /\ after_call.result.success,
         context_before |-> ctx[1],
         context_after |-> ctx[2],
         before_call |-> before_call,
         after_call |-> after_call],
     soup_before |-> IF before_call.made THEN before_call.result.soup
                     ELSE original_soup_before,
     soup_after |-> IF after_call.made THEN after_call.result.soup
                    ELSE modified_soup_after,
     nextId |-> IF after_call.made THEN after_call.result.nextId
                ELSE IF before_call.made THEN before_call.result.nextId
                ELSE nid]

\* the second call given the before-tree as well
ReplaceResultSameTree(original_soup_before, modified_soup_after, after_text, tooltip, ctx, nid, before_call) ==
    HighlightResult(original_soup_before, modified_soup_after, ctx, nid, before_call,
        LocateCall(original_soup_before, after_text, "highlight-modified", tooltip, ctx,
                   before_call.result.nextId))

\* the second call made only after a first one that succeeded
ReplaceResultAfterOnSuccess(original_soup_before, modified_soup_after, after_text, tooltip, ctx, nid, before_call) ==
    HighlightResult(original_soup_before, modified_soup_after, ctx, nid, before_call,
        IF before_call.result.success
        THEN LocateCall(modified_soup_after, after_text, "highlight-modified", tooltip, ctx,
                        before_call.result.nextId)
        ELSE NoCall)

\* lines 266-286: the second call follows the first
ReplaceResult(original_soup_before, modified_soup_after, after_text, tooltip, ctx, nid, before_call) ==
    HighlightResult(original_soup_before, modified_soup_after, ctx, nid, before_call,
        LocateCall(modified_soup_after, after_text, "highlight-modified", tooltip, ctx,
                   before_call.result.nextId))

\* lines 242-288
HighlightByStatus(original_soup_before, modified_soup_after, status, before_text, after_text, ctx, change_index, nid) ==
    IF status = "delete" /\ before_text # <<>>
    THEN HighlightResult(original_soup_before, modified_soup_after, ctx, nid,
             LocateCall(original_soup_before, before_text, "highlight-removed",
                        TooltipDeleted(change_index, before_text), ctx, nid),
             NoCall)
    ELSE IF status = "insert" /\ after_text # <<>>
    THEN HighlightResult(original_soup_before, modified_soup_after, ctx, nid,
             NoCall,
             LocateCall(modified_soup_after, after_text, "highlight-added",
                        TooltipAdded(change_index, after_text), ctx, nid))
    ELSE IF status = "replace" /\ before_text # <<>> /\ after_text # <<>>
    THEN ReplaceResult(original_soup_before, modified_soup_after, after_text,
             TooltipModified(change_index, before_text, after_text), ctx, nid,
             LocateCall(original_soup_before, before_text, "highlight-modified",
                        TooltipModified(change_index, before_text, after_text), ctx, nid))
    ELSE HighlightResult(original_soup_before, modified_soup_after, ctx, nid, NoCall, NoCall)

_highlight_text_in_html(original_soup_before, modified_soup_after, change, change_index, nid) ==
    HighlightByStatus(original_soup_before, modified_soup_after, change.status,
                      Join(change.before), Join(change.after),
                      _extract_change_context(change), change_index, nid)

(***************************************************************************)
(* Inputs.  Words are one letter long except one long word; a document is   *)
(* a table (each text in a td of a tr), a run of paragraphs (each text in a *)
(* p below the root), or paragraphs of which the first is a script.  A      *)
(* pretty-printed document has a whitespace text node after each cell.      *)
(***************************************************************************)
MaxTextLen == 3        \* texts given to the similarity
MaxWords == 3          \* words of a document given to the word diff
MaxLeaves == 2         \* cells of a document given to a comparison run
MaxLocLeaves == 3      \* cells of a tree given to a single locate call

Alphabet == {"a", "b", " "}
Vocabulary == {<<"a">>, <<"b">>, <<"c">>}

RECURSIVE SeqsUpTo(_, _)
SeqsUpTo(S, n) ==
    IF n = 0 THEN {<<>>}
    ELSE LET shorter == SeqsUpTo(S, n - 1)
         IN  shorter \cup {Append(t, x) : t \in {u \in shorter : Len(u) = n - 1}, x \in S}

TextA == <<"a">>
TextB == <<"b">>
TextAB == <<"a", " ", "b">>
TextABA == <<"a", " ", "b", " ", "a">>
TextLongB == <<"b", "b", "b", "b", "b", "b", "b", "b">>
TextALongB == TextA \o <<" ">> \o TextLongB
TextAA == <<"a", "a">>
TextAAB == <<"a", "a", "b">>

\* row[k] is the row of the k-th cell: rows start at 1 and grow by steps of 0 or 1
RowLayouts(n) ==
    {r \in [1..n -> 1..n] : r[1] = 1 /\ \A k \in 2..n : r[k] \in {r[k - 1], r[k - 1] + 1}}

CellPath(kind, k, row) ==
    IF kind = "table" THEN <<Root, Elem(2 * row - 1, "tr", ""), Elem(2 * k, "td", "")>>
    ELSE IF kind = "scripted" /\ k = 1 THEN <<Root, Elem(2 * k, "script", "")>>
    ELSE <<Root, Elem(2 * k, "p", "")>>

\* the text nodes of the HTML, as BeautifulSoup(html, 'html.parser') yields them
ParseCell(kind, pretty, k, row, text) ==
    <<[text |-> text, path |-> CellPath(kind, k, row)]>>
    \o (IF pretty
        THEN <<[text |-> <<" ">>,
                path |-> IF kind = "table" THEN <<Root, Elem(2 * row - 1, "tr", "")>>
                         ELSE <<Root>>]>>
        ELSE <<>>)

Parse(kind, pretty, rows, texts) ==
    Concat([k \in 1..Len(texts) |-> ParseCell(kind, pretty, k, rows[k], texts[k])])

Layouts(kinds, n) ==
    {<<kind, r>> : kind \in kinds, r \in RowLayouts(n)} \ 
    {<<kind, r>> \in (kinds \ {"table"}) \X RowLayouts(n) : \E k \in 1..n : r[k] # 1}

TextsOf(n, S) == [1..n -> S]

FirstId(n) == 2 * n + 1                                      \* above every identity of Parse

(***************************************************************************)
(* The similarity on its own                                                *)
(***************************************************************************)
SimTexts == SeqsUpTo(Alphabet, MaxTextLen)

InitSim ==
    /\ pc = "similarity"
    /\ text1 \in SimTexts
    /\ text2 \in SimTexts
    /\ out = None
    /\ soup = <<>> /\ target_text = <<>> /\ context = <<None, None>>
    /\ soup_before = <<>> /\ soup_after = <<>> /\ changes = <<>>
    /\ idx = 0 /\ nextId = 0
    /\ before = <<>> /\ after = <<>>

CalculateTextSimilarity ==
    /\ pc = "similarity"
    /\ out' = _calculate_text_similarity(text1, text2)
    /\ pc' = "similarity_done"
    /\ UNCHANGED <<before, after, text1, text2, soup, target_text, context,
                   soup_before, soup_after, changes, idx, nextId>>

SpecSim == InitSim /\ [][CalculateTextSimilarity]_vars

(***************************************************************************)
(* analyze_changes on its own: two one-paragraph documents                  *)
(***************************************************************************)
\* the words with irregular whitespace around and between them
Messy(ws) == <<" ">> \o Concat([k \in 1..Len(ws) |-> ws[k] \o <<" ", "_">>])

\* documents long enough for a hunk to have more words on one side of it
\* than its context takes
LongWordSeqs ==
    {<<TextA, TextB, <<"c">>, TextA, TextB>>, <<TextA, TextB, <<"c">>, TextA, <<"c">>>>,
     <<<<"c">>, TextB, <<"c">>, TextA, TextB>>, <<TextA, TextB, <<"c">>, TextA>>,
     <<TextB, TextA, TextA, TextA>>}

WordDocs ==
    LET wss == SeqsUpTo(Vocabulary, MaxWords)
    IN  {IF ws = <<>> THEN <<>> ELSE Parse("paragraphs", FALSE, <<1>>, <<Join(ws)>>) : ws \in wss}
        \cup {Parse("paragraphs", FALSE, <<1>>, <<Messy(ws)>>) : ws \in wss}
        \cup {Parse("paragraphs", FALSE, <<1>>, <<Join(ws)>>) : ws \in LongWordSeqs}

InitDiff ==
    /\ pc = "analyze"
    /\ soup_before \in WordDocs
    /\ soup_after \in WordDocs
    /\ changes = <<>>
    /\ text1 = <<>> /\ text2 = <<>> /\ out = None
    /\ soup = <<>> /\ target_text = <<>> /\ context = <<None, None>>
    /\ idx = 0 /\ nextId = FirstId(1)
    /\ before = <<>> /\ after = <<>>

\* HTML_COMPARE, line 470: changes = comparator.analyze_changes(before, after)
AnalyzeChanges ==
    /\ pc = "analyze"
    /\ changes' = _analyze_char_word_changes(soup_before, soup_after)
    /\ idx' = 0
    /\ pc' = "highlight"
    /\ UNCHANGED <<before, after, text1, text2, out, soup, target_text, context,
                   soup_before, soup_after, nextId>>

SpecDiff == InitDiff /\ [][AnalyzeChanges]_vars

(***************************************************************************)
(* One call of _find_and_highlight_text_by_content on a parsed document     *)
(***************************************************************************)
LocTexts == {TextA, TextB, TextAB, TextLongB, TextALongB}
LocTargets == {<<" ", "a">>, TextAB, TextALongB, <<" ">>, <<>>}
LocContexts == {<<None, None>>, <<TextA, TextB>>}

Docs(kinds, maxLeaves, texts) ==
    UNION {{Parse(lay[1], pretty, lay[2], t) :
               lay \in Layouts(kinds, n), pretty \in BOOLEAN, t \in TextsOf(n, texts)} :
           n \in 1..maxLeaves}

InitLocate ==
    /\ pc = "locate"
    /\ soup \in Docs({"table", "paragraphs", "scripted"}, MaxLocLeaves, LocTexts)
    /\ target_text \in LocTargets
    /\ context \in LocContexts
    /\ out = None
    /\ text1 = <<>> /\ text2 = <<>>
    /\ soup_before = <<>> /\ soup_after = <<>> /\ changes = <<>>
    /\ idx = 0 /\ nextId = FirstId(MaxLocLeaves)
    /\ before = <<>> /\ after = <<>>

Locate ==
    /\ pc = "locate"
    /\ \E call \in {LocateCall(soup, target_text, "highlight-modified", <<"T">>,
                                context, nextId)} :
          /\ out' = call
          /\ soup' = call.result.soup
          /\ nextId' = call.result.nextId
    /\ pc' = "located"
    /\ UNCHANGED <<before, after, text1, text2, target_text, context,
                   soup_before, soup_after, changes, idx>>

SpecLocate == InitLocate /\ [][Locate]_vars

(***************************************************************************)
(* The same call on trees whose texts have lengths on both sides of the     *)
(* threshold: texts of 1, 9 and 10 characters, targets of 1 and 9           *)
(***************************************************************************)
TextABs == TextA \o TextLongB
BorderTexts == {TextA, TextABs, TextALongB}
BorderTargets == {TextA, TextABs}

InitBorderline ==
    /\ pc = "locate"
    /\ soup \in Docs({"table", "paragraphs"}, MaxLocLeaves, BorderTexts)
    /\ target_text \in BorderTargets
    /\ context \in LocContexts
    /\ out = None
    /\ text1 = <<>> /\ text2 = <<>>
    /\ soup_before = <<>> /\ soup_after = <<>> /\ changes = <<>>
    /\ idx = 0 /\ nextId = FirstId(MaxLocLeaves)
    /\ before = <<>> /\ after = <<>>

SpecBorderline == InitBorderline /\ [][Locate]_vars

(***************************************************************************)
(* The same call under several values of the threshold constant             *)
(***************************************************************************)
Thresholds == {ABSOLUTE_THRESHOLD, Frac(1, 2), Frac(7, 10)}
ThresholdTexts == {TextA, TextB, TextAA}
ThresholdTargets == {TextA, TextAAB}

InitThreshold ==
    /\ pc = "thresholds"
    /\ soup \in Docs({"table", "paragraphs"}, MaxLocLeaves, ThresholdTexts)
    /\ target_text \in ThresholdTargets
    /\ context \in LocContexts
    /\ out = None
    /\ text1 = <<>> /\ text2 = <<>>
    /\ soup_before = <<>> /\ soup_after = <<>> /\ changes = <<>>
    /\ idx = 0 /\ nextId = FirstId(MaxLocLeaves)
    /\ before = <<>> /\ after = <<>>

\* each call is given its own copy of the tree
LocateUnderThresholds ==
    /\ pc = "thresholds"
    /\ out' = [t \in Thresholds |->
                  _find_and_highlight_text_by_content(
                      soup, target_text, "highlight-modified", <<"T">>,
                      context[1], context[2], t, nextId)]
    /\ pc' = "thresholds_done"
    /\ UNCHANGED <<before, after, text1, text2, soup, target_text, context,
                   soup_before, soup_after, changes, idx, nextId>>

SpecThreshold == InitThreshold /\ [][LocateUnderThresholds]_vars

(***************************************************************************)
(* A comparison run: analyze_changes, then _apply_highlights_to_html on the *)
(* two parsed documents, one iteration of its loop at a time                *)
(***************************************************************************)
LeafTexts == {TextA, TextB, TextAB, TextABA}

InitRun ==
    /\ pc = "analyze"
    /\ \E n \in 1..MaxLeaves :
       \E lay \in Layouts({"table", "paragraphs"}, n) :
       \E pretty \in BOOLEAN :
       \E tb \in TextsOf(n, LeafTexts) :
       \E ta \in TextsOf(n, LeafTexts) :
          /\ before = Parse(lay[1], pretty, lay[2], tb)
          /\ after = Parse(lay[1], pretty, lay[2], ta)
    /\ soup_before = before
    /\ soup_after = after
    /\ changes = <<>>
    /\ text1 = <<>> /\ text2 = <<>> /\ out = None
    /\ soup = <<>> /\ target_text = <<>> /\ context = <<None, None>>
    /\ idx = 0 /\ nextId = FirstId(MaxLeaves)

\* every hunk searched in the documents as they were parsed
HighlightChangeOnParsed ==
    /\ pc = "highlight"
    /\ idx < Len(changes)
    /\ \E r \in {_highlight_text_in_html(before, after, changes[idx + 1], idx, nextId)} :
          /\ soup_before' = r.soup_before
          /\ soup_after' = r.soup_after
          /\ nextId' = r.nextId
          /\ changes' = [changes EXCEPT
                            ![idx + 1] = ("highlighting_result" :> r.result) @@ @]
    /\ idx' = idx + 1
    /\ UNCHANGED <<before, after, pc, text1, text2, out, soup, target_text, context>>

\* one iteration of the loop of _apply_highlights_to_html (lines 207-210)
HighlightChange ==
    /\ pc = "highlight"
    /\ idx < Len(changes)
    /\ \E r \in {_highlight_text_in_html(soup_before, soup_after, changes[idx + 1], idx, nextId)} :
          /\ soup_before' = r.soup_before
          /\ soup_after' = r.soup_after
          /\ nextId' = r.nextId
          /\ changes' = [changes EXCEPT
                            ![idx + 1] = ("highlighting_result" :> r.result) @@ @]
    /\ idx' = idx + 1
    /\ UNCHANGED <<before, after, pc, text1, text2, out, soup, target_text, context>>

\* the loop ends
HighlightsApplied ==
    /\ pc = "highlight"
    /\ idx = Len(changes)
    /\ pc' = "done"
    /\ UNCHANGED <<before, after, text1, text2, out, soup, target_text, context,
                   soup_before, soup_after, changes, idx, nextId>>

\* HTML_COMPARE, line 490: display_html_structure_highlighting calls
\* create_html_with_highlighting, which parses the two documents again
\* (lines 107-108) and gives the new trees and the same changes to
\* _apply_highlights_to_html (line 110)
CreateHtmlWithHighlighting ==
    /\ pc = "done"
    /\ soup_before' = before
    /\ soup_after' = after
    /\ idx' = 0
    /\ nextId' = FirstId(MaxLeaves)
    /\ pc' = "display"
    /\ UNCHANGED <<before, after, text1, text2, out, soup, target_text, context, changes>>

\* one iteration of the loop of _apply_highlights_to_html in that call
HighlightChangeForDisplay ==
    /\ pc = "display"
    /\ idx < Len(changes)
    /\ \E r \in {_highlight_text_in_html(soup_before, soup_after, changes[idx + 1], idx, nextId)} :
          /\ soup_before' = r.soup_before
          /\ soup_after' = r.soup_after
          /\ nextId' = r.nextId
          /\ changes' = [changes EXCEPT
                            ![idx + 1] = ("highlighting_result" :> r.result) @@ @]
    /\ idx' = idx + 1
    /\ UNCHANGED <<before, after, pc, text1, text2, out, soup, target_text, context>>

\* the loop ends and the page is shown
HtmlDisplayed ==
    /\ pc = "display"
    /\ idx = Len(changes)
    /\ pc' = "displayed"
    /\ UNCHANGED <<before, after, text1, text2, out, soup, target_text, context,
                   soup_before, soup_after, changes, idx, nextId>>

Next ==
    \/ AnalyzeChanges
    \/ HighlightChange
    \/ HighlightsApplied
    \/ CreateHtmlWithHighlighting
    \/ HighlightChangeForDisplay
    \/ HtmlDisplayed

Spec == InitRun /\ [][Next]_vars

(***************************************************************************)
(* The two trees annotated by two passes, each taking the hunks in diff     *)
(* order and the steps of the two in any order.  A step of a pass is        *)
(* _highlight_text_in_html with an empty document in place of the other     *)
(* tree; out holds what the calls of each pass returned.                    *)
(***************************************************************************)
EmptyDocument == <<>>

InitPasses ==
    /\ pc = "analyze"
    /\ \E n \in 1..MaxLeaves :
       \E lay \in Layouts({"table", "paragraphs"}, n) :
       \E pretty \in BOOLEAN :
       \E tb \in TextsOf(n, LeafTexts) :
       \E ta \in TextsOf(n, LeafTexts) :
          /\ before = Parse(lay[1], pretty, lay[2], tb)
          /\ after = Parse(lay[1], pretty, lay[2], ta)
    /\ soup_before = before
    /\ soup_after = after
    /\ changes = <<>>
    /\ out = [before_calls |-> <<>>, after_calls |-> <<>>]
    /\ text1 = <<>> /\ text2 = <<>>
    /\ soup = <<>> /\ target_text = <<>> /\ context = <<None, None>>
    /\ idx = 0 /\ nextId = FirstId(MaxLeaves)

\* the before-tree pass takes its next hunk
BeforePassStep ==
    /\ pc = "highlight"
    /\ Len(out.before_calls) < Len(changes)
    /\ \E r \in {_highlight_text_in_html(soup_before, EmptyDocument,
                                          changes[Len(out.before_calls) + 1],
                                          Len(out.before_calls), nextId)} :
          /\ soup_before' = r.soup_before
          /\ nextId' = r.nextId
          /\ out' = [out EXCEPT !.before_calls =
                         Append(@, <<r.result.before_highlighted, r.result.before_call>>)]
    /\ UNCHANGED <<before, after, pc, text1, text2, soup, target_text, context,
                   soup_after, changes, idx>>

\* the after-tree pass takes its next hunk
AfterPassStep ==
    /\ pc = "highlight"
    /\ Len(out.after_calls) < Len(changes)
    /\ \E r \in {_highlight_text_in_html(EmptyDocument, soup_after,
                                          changes[Len(out.after_calls) + 1],
                                          Len(out.after_calls), nextId)} :
          /\ soup_after' = r.soup_after
          /\ nextId' = r.nextId
          /\ out' = [out EXCEPT !.after_calls =
                         Append(@, <<r.result.after_highlighted, r.result.after_call>>)]
    /\ UNCHANGED <<before, after, pc, text1, text2, soup, target_text, context,
                   soup_before, changes, idx>>

\* both passes have taken every hunk
PassesDone ==
    /\ pc = "highlight"
    /\ Len(out.before_calls) = Len(changes)
    /\ Len(out.after_calls) = Len(changes)
    /\ pc' = "done"
    /\ UNCHANGED <<before, after, text1, text2, out, soup, target_text, context,
                   soup_before, soup_after, changes, idx, nextId>>

SpecPasses ==
    InitPasses /\ [][AnalyzeChanges \/ BeforePassStep \/ AfterPassStep \/ PassesDone]_vars

(***************************************************************************)
(* Properties                                                               *)
(***************************************************************************)
MarkerClasses == {"highlight-removed", "highlight-added", "highlight-modified"}

\* n is the text of a marker: its parent is a span an earlier call created
IsMarked(n) == Parent(n).tag = "span" /\ Parent(n).cls \in MarkerClasses

Range(s) == {s[k] : k \in 1..Len(s)}

\* the text nodes a call selected, as they were in the tree it was given
PickedOf(call) ==
    IF call.made THEN {call.soup[e] : e \in Range(call.result.picked)} ELSE {}

\* the hunks that carry the key highlighting_result
Processed == {k \in 1..Len(changes) : "highlighting_result" \in DOMAIN changes[k]}

\* C1: in a comparison run no hunk's search selects a text node that an
\* earlier hunk has already wrapped in a marker.
C1_NoLeafClaimedTwice ==
    \A k \in Processed :
        \A call \in {changes[k].highlighting_result.before_call,
                     changes[k].highlighting_result.after_call} :
            \A n \in PickedOf(call) : ~IsMarked(n)

BeforeWords == Split(_extract_clean_text(soup_before))
AfterWords == Split(_extract_clean_text(soup_after))
HunkBeforeWords == Concat([k \in 1..Len(changes) |-> changes[k].before])
HunkAfterWords == Concat([k \in 1..Len(changes) |-> changes[k].after])

\* C2 as stated: the beforeWords of the hunks, concatenated in order, are the
\* before-word sequence, and the afterWords are the after-word sequence.
C2_HunksReproduceWords ==
    pc = "highlight" => HunkBeforeWords = BeforeWords /\ HunkAfterWords = AfterWords

\* the hunks put back between the equal runs of the opcodes; side 1 is
\* before, side 2 is after
RECURSIVE Reassemble(_, _, _, _)
Reassemble(ops, hunks, words, side) ==
    IF ops = <<>> THEN <<>>
    ELSE IF Head(ops)[1] = "equal"
    THEN Slice(words, Head(ops)[2 * side], Head(ops)[2 * side + 1])
         \o Reassemble(Tail(ops), hunks, words, side)
    ELSE (IF side = 1 THEN Head(hunks).before ELSE Head(hunks).after)
         \o Reassemble(Tail(ops), Tail(hunks), words, side)

NonEqual(ops) == SelectSeq(ops, LAMBDA op : op[1] # "equal")

\* C2 (amended): the hunks are as many as the opcodes that are not equal,
\* and their beforeWords, put back in order between the equal runs that
\* analyze leaves out, are the before-word sequence; the same for afterWords.
C2_HunksAndEqualRunsReproduceWords ==
    pc = "highlight" =>
        LET ops == get_opcodes(BeforeWords, AfterWords)
        IN  /\ Len(changes) = Len(NonEqual(ops))
            /\ Reassemble(ops, changes, BeforeWords, 1) = BeforeWords
            /\ Reassemble(ops, changes, AfterWords, 2) = AfterWords

\* two hunks with an equal run left out between them
C2_Witness ==
    /\ pc = "highlight"
    /\ Len(changes) >= 2
    /\ Len(HunkBeforeWords) < Len(BeforeWords)
    /\ HunkAfterWords # <<>>

\* the spans of a tree that another tree does not have: the markers and
\* tooltips a step created
Elements(tree) == UNION {Range(tree[k].path) : k \in 1..Len(tree)}
NewSpans(old, new) ==
    {e \in Elements(new) : e.tag = "span" /\ \A o \in Elements(old) : o.id # e.id}
NewMarkerClasses(old, new) ==
    {e.cls : e \in {x \in NewSpans(old, new) : x.cls # "highlight-tooltip"}}

\* what the step that handles hunk idx + 1 has to satisfy for C5
C5Step ==
    LET status == changes[idx + 1].status
        r == changes'[idx + 1].highlighting_result
        searched_before == r.before_call.made /\ r.before_call.soup = soup_before
        searched_after == r.after_call.made /\ r.after_call.soup = soup_after
    IN  /\ status \in {"delete", "insert", "replace"}
        /\ status = "delete" =>
               /\ searched_before /\ ~r.after_call.made
               /\ soup_after' = soup_after
               /\ NewMarkerClasses(soup_before, soup_before') \subseteq {"highlight-removed"}
               /\ r.before_call.target_text = Join(changes[idx + 1].before)
        /\ status = "insert" =>
               /\ searched_after /\ ~r.before_call.made
               /\ soup_before' = soup_before
               /\ NewMarkerClasses(soup_after, soup_after') \subseteq {"highlight-added"}
               /\ r.after_call.target_text = Join(changes[idx + 1].after)
        /\ status = "replace" =>
               /\ searched_before /\ searched_after
               /\ NewMarkerClasses(soup_before, soup_before') \subseteq {"highlight-modified"}
               /\ NewMarkerClasses(soup_after, soup_after') \subseteq {"highlight-modified"}
               /\ r.before_call.target_text = Join(changes[idx + 1].before)
               /\ r.after_call.target_text = Join(changes[idx + 1].after)
        /\ (r.before_highlighted <=> NewMarkerClasses(soup_before, soup_before') # {})
        /\ (r.after_highlighted <=> NewMarkerClasses(soup_after, soup_after') # {})

\* C5: a delete hunk searches and marks only the before-tree (class removed),
\* an insert hunk only the after-tree (class added), a replace hunk both
\* (class modified); the other tree is left as it is.
C5_StatusSelectsTree == [][HighlightChange => C5Step]_vars

\* a run in which a delete hunk has marked the before-tree and a replace hunk
\* has marked both trees
C5_Witness ==
    /\ \E k \in Processed :
          /\ changes[k].status = "delete"
          /\ changes[k].highlighting_result.before_highlighted
    /\ \E k \in Processed :
          /\ changes[k].status = "replace"
          /\ changes[k].highlighting_result.before_highlighted
          /\ changes[k].highlighting_result.after_highlighted

\* what the step that handles hunk idx + 1 has to satisfy for C6
C6Step ==
    LET r == changes'[idx + 1].highlighting_result
    IN  /\ (r.before_call.made /\ ~r.before_call.result.success) =>
               soup_before' = soup_before /\ ~r.before_highlighted
        /\ (r.after_call.made /\ ~r.after_call.result.success) =>
               soup_after' = soup_after /\ ~r.after_highlighted
        /\ idx' = idx + 1
        /\ pc' = "highlight"

\* C6: a hunk for which neither the scan nor the sequence fallback accepts a
\* match leaves the searched tree as it was and records not-highlighted for
\* that side, the loop goes on to the next hunk, and when it ends every hunk
\* carries a highlighting_result.
C6_NoMatchIsLocal ==
    /\ [][HighlightChange => C6Step]_vars
    /\ [](pc = "done" => Processed = 1..Len(changes))

\* the loop has ended after a hunk without a match and a later hunk with one
C6_Witness ==
    /\ pc = "done"
    /\ \E k \in Processed : \E j \in Processed :
          /\ k < j
          /\ changes[k].highlighting_result.before_call.made
          /\ ~changes[k].highlighting_result.before_call.result.success
          /\ changes[j].highlighting_result.before_highlighted

\* C7: the similarity does not depend on the order of its two arguments.
C7_SimilaritySymmetric ==
    pc = "similarity_done" => out = _calculate_text_similarity(text2, text1)

\* The candidates of the scan: the text nodes outside script and style whose
\* normalized text contains the target, and the score of each
Candidates(tree, target) ==
    {k \in 1..Len(tree) : /\ Parent(tree[k]).tag \notin {"script", "style"}
                          /\ Contains(NodeText(tree[k].text), target)}

FinalScore(tree, k, target, ctx) ==
    RAdd(_calculate_text_similarity(NodeText(tree[k].text), target),
         RMul(IF Truthy(ctx[1]) \/ Truthy(ctx[2])
              THEN _calculate_context_match_score_with_details(tree, k, target, ctx[1], ctx[2])
              ELSE Zero,
              Frac(1, 2)))

\* new is old with the text node at position e replaced by a marker of two
\* text nodes
MarkedAt(old, new, e) ==
    /\ Len(new) = Len(old) + 1
    /\ \A k \in 1..(e - 1) : new[k] = old[k]
    /\ \A k \in (e + 1)..Len(old) : new[k + 1] = old[k]
    /\ Parent(new[e]).tag = "span"
    /\ Parent(new[e]).cls \in MarkerClasses
    /\ SubSeq(new[e].path, 1, Len(new[e].path) - 1) = old[e].path

\* a finished call whose target is not blank and is contained in some node
LocatorCase ==
    /\ pc = "located"
    /\ Strip(out.target_text) # <<>>
    /\ Candidates(out.soup, Strip(out.target_text)) # {}

\* C3: of the text nodes outside script and style whose normalized text
\* contains the target, the scan selects one whose finalScore = similarity +
\* 0.5 * contextScore is the greatest; it reports a match and marks that node
\* exactly when that score is at least 0.2, and marks nothing otherwise.
C3_LocatorPicksBestAboveThreshold ==
    LocatorCase =>
        LET target == Strip(out.target_text)
            cands == Candidates(out.soup, target)
            score(k) == FinalScore(out.soup, k, target, out.context)
            picked == out.result.picked
        IN  /\ out.result.success <=> \E k \in cands : RGe(score(k), Frac(1, 5))
            /\ out.result.success =>
                   /\ Len(picked) = 1
                   /\ picked[1] \in cands
                   /\ \A k \in cands : RGe(score(picked[1]), score(k))
                   /\ RGe(score(picked[1]), Frac(1, 5))
                   /\ MarkedAt(out.soup, soup, picked[1])
            /\ ~out.result.success => soup = out.soup /\ picked = <<>>

\* a match on a node that is not the first candidate, and a call whose
\* candidates all stay below the threshold never reaches this state
C3_Witness ==
    /\ LocatorCase
    /\ out.result.success
    /\ \E k \in Candidates(out.soup, Strip(out.target_text)) : k < out.result.picked[1]
    /\ out.context # <<None, None>>

\* C4: of several candidates with the greatest finalScore the scan selects
\* the first in document order.
C4_TieGoesToFirst ==
    (LocatorCase /\ out.result.success) =>
        LET target == Strip(out.target_text)
            score(k) == FinalScore(out.soup, k, target, out.context)
        IN  \A k \in Candidates(out.soup, target) :
                k < out.result.picked[1] => ~RGe(score(k), score(out.result.picked[1]))

\* two nodes with the same normalized text and no context; the first is taken
C4_Witness ==
    /\ LocatorCase
    /\ out.result.success
    /\ out.context = <<None, None>>
    /\ \E k \in Candidates(out.soup, Strip(out.target_text)) :
          /\ k > out.result.picked[1]
          /\ NodeText(out.soup[k].text) = NodeText(out.soup[out.result.picked[1]].text)

TextsOfTree(tree) == [k \in 1..Len(tree) |-> tree[k].text]

\* C9: a call that marks a node or a group leaves the text of the tree as a
\* later scan or text extraction sees it: the same text nodes with the same
\* texts, and none added.
C9_TextUnchanged ==
    (pc = "located" /\ out.result.success) =>
        /\ TextsOfTree(soup) = TextsOfTree(out.soup)
        /\ soup_get_text(soup) = soup_get_text(out.soup)

\* the positions of the text nodes that are not blank, in document order
NonBlank(tree) == SelectSeq(Indices(tree), LAMBDA k : NodeText(tree[k].text) # <<>>)

\* run is a stretch of two or more consecutive non-blank text nodes, each the
\* text of a cell of one row, whose normalized texts joined by single spaces
\* are the target; no text node contains the target and no text node outside
\* the run is a part of it
GroupCase(tree, target, run) ==
    /\ Len(run) >= 2
    /\ \A g \in 1..Len(run) :
          /\ Len(tree[run[g]].path) >= 2
          /\ Parent(tree[run[g]]).tag = "td"
          /\ Grand(tree[run[g]]).tag = "tr"
          /\ Grand(tree[run[g]]).id = Grand(tree[run[1]]).id
    /\ Join([g \in 1..Len(run) |-> NodeText(tree[run[g]].text)]) = target
    /\ \A k \in 1..Len(tree) : ~Contains(NodeText(tree[k].text), target)
    /\ \A k \in Range(NonBlank(tree)) \ Range(run) :
          ~Contains(target, NodeText(tree[k].text))

Runs(tree) ==
    {SubSeq(NonBlank(tree), i, j) : i \in 1..Len(NonBlank(tree)), j \in 1..Len(NonBlank(tree))}

\* every node of the run has become a marker, and nothing else has changed
RECURSIVE AllMarked(_, _, _)
AllMarked(old, new, run) ==
    IF run = <<>> THEN new = old
    ELSE LET e == run[Len(run)]
             \* each marker before it has added one text node
             at == e + Len(run) - 1
         IN  /\ Len(new) > at
             /\ Parent(new[at]).tag = "span"
             /\ Parent(new[at]).cls \in MarkerClasses
             /\ Parent(new[at + 1]).cls = "highlight-tooltip"
             /\ AllMarked(old,
                          SubSeq(new, 1, at - 1) \o <<old[e]>> \o SubSeq(new, at + 2, Len(new)),
                          SubSeq(run, 1, Len(run) - 1))

GroupFormedAndMarked(run) ==
    /\ out.result.success
    /\ out.result.stage = "fallback"
    /\ out.result.picked = run
    /\ AllMarked(out.soup, soup, run)

\* C10 as stated: when no node contains the target, the target is the
\* single-space join of k >= 2 adjacent nodes of one row and no other node
\* overlaps it, the fallback forms the group of those k nodes, accepts it and
\* makes each of them a marker.
C10_GroupOfAdjacentCells ==
    pc = "located" =>
        \A run \in Runs(out.soup) :
            GroupCase(out.soup, out.target_text, run) => GroupFormedAndMarked(run)

\* each node of the run is similar enough to the target to pass the filter
\* of the fallback
EachSimilar(tree, target, run) ==
    \A g \in 1..Len(run) :
        RGe(_calculate_text_similarity(NodeText(tree[run[g]].text), target), Frac(1, 5))

\* C10 (amended): the same, for nodes each of which has a similarity to the
\* target of at least 0.2.
C10_GroupOfSimilarAdjacentCells ==
    pc = "located" =>
        \A run \in Runs(out.soup) :
            (GroupCase(out.soup, out.target_text, run)
                /\ EachSimilar(out.soup, out.target_text, run))
            => GroupFormedAndMarked(run)

\* two cells of one row marked as a group, with a stored context
C10_Witness ==
    /\ pc = "located"
    /\ out.context # <<None, None>>
    /\ \E run \in Runs(out.soup) :
          /\ GroupCase(out.soup, out.target_text, run)
          /\ EachSimilar(out.soup, out.target_text, run)
          /\ GroupFormedAndMarked(run)
          /\ Len(soup) = Len(out.soup) + 2

\* C8 as stated: for a fixed tree, target and context and two values
\* t1 < t2 of the threshold, a match under t2 is a match under t1.
C8_ThresholdMonotone ==
    pc = "thresholds_done" =>
        \A t1 \in Thresholds : \A t2 \in Thresholds :
            (RGt(t2, t1) /\ out[t2].success) => out[t1].success

\* the scan decides under t2, or the fallback works on the same text nodes
\* under both thresholds
SameCandidates(t1, t2) ==
    \/ out[t2].stage = "locator"
    \/ PartialMatches(soup, Strip(target_text), t1) = PartialMatches(soup, Strip(target_text), t2)

\* C8 (amended): for two values t1 < t2 of the threshold, a match under t2
\* is a match under t1 when the scan decides it or when the same text nodes
\* pass the similarity filter of the fallback under both values.
C8_ThresholdMonotoneOnSameCandidates ==
    pc = "thresholds_done" =>
        \A t1 \in Thresholds : \A t2 \in Thresholds :
            (RGt(t2, t1) /\ out[t2].success /\ SameCandidates(t1, t2)) => out[t1].success

\* a group accepted under two values of the threshold and rejected under a
\* third, greater one
C8_Witness ==
    /\ pc = "thresholds_done"
    /\ \E t1 \in Thresholds : \E t2 \in Thresholds : \E t3 \in Thresholds :
          /\ RGt(t2, t1) /\ RGt(t3, t2)
          /\ out[t2].success /\ out[t2].stage = "fallback"
          /\ SameCandidates(t1, t2)
          /\ out[t1].success
          /\ ~out[t3].success

(***************************************************************************)
(* The hunks of the word diff                                               *)
(***************************************************************************)
\* the opcodes the hunks were made from, in the order of the hunks
HunkOps == NonEqual(get_opcodes(BeforeWords, AfterWords))

\* span locates words in text, or is None with start past the last word
SpanLocates(span, text, words, all_words, start) ==
    IF span = None THEN start >= Len(all_words)
    ELSE /\ 0 <= span[1] /\ span[1] <= span[2] /\ span[2] <= Len(text)
         /\ Slice(text, span[1], span[2]) = Join(words)

\* C11: a span of a hunk that is not None lies within the normalized text of
\* its side and the text between its ends is the hunk's words of that side
\* joined by single spaces; a span is None only when the hunk's first word
\* index is not an index of that side's words.
C11_SpansLocateWords ==
    pc = "highlight" =>
        \A k \in 1..Len(changes) :
            /\ SpanLocates(changes[k].before_position, _extract_clean_text(soup_before),
                           changes[k].before, BeforeWords, HunkOps[k][2])
            /\ SpanLocates(changes[k].after_position, _extract_clean_text(soup_after),
                           changes[k].after, AfterWords, HunkOps[k][4])

\* a hunk past the first word of one side and past the last word of the other
C11_Witness ==
    /\ pc = "highlight"
    /\ \E k \in 1..Len(changes) :
          /\ changes[k].before_position # None
          /\ changes[k].before_position[1] > 0
          /\ changes[k].before_position[2] > changes[k].before_position[1]
          /\ changes[k].after_position = None

\* the words of ws at the python indices lo, ..., hi - 1
WordsAt(ws, lo, hi) == [m \in 1..(hi - lo) |-> ws[lo + m]]

\* words_before and words_after are the words of ws around the range
\* [lo, hi), three of them at most
ContextsAround(words_before, words_after, ws, lo, hi) ==
    /\ words_before = WordsAt(ws, IF lo - 3 > 0 THEN lo - 3 ELSE 0, lo)
    /\ words_after = WordsAt(ws, hi, IF hi + 3 < Len(ws) THEN hi + 3 ELSE Len(ws))
    /\ Len(words_before) <= 3 /\ Len(words_after) <= 3
    /\ lo = 0 => words_before = <<>>
    /\ hi = Len(ws) => words_after = <<>>

\* C12: the contexts of a hunk with before-range [i1, i2) and after-range
\* [j1, j2) are the before-words at [max(0, i1 - 3), i1) and at
\* [i2, min(n, i2 + 3)) and the after-words at the same ranges around j1 and
\* j2; each has three words at most and is empty at an end of the document.
C12_ContextsAreNeighbouringWords ==
    pc = "highlight" =>
        \A k \in 1..Len(changes) :
            /\ ContextsAround(changes[k].before_context_before, changes[k].before_context_after,
                              BeforeWords, HunkOps[k][2], HunkOps[k][3])
            /\ ContextsAround(changes[k].after_context_before, changes[k].after_context_after,
                              AfterWords, HunkOps[k][4], HunkOps[k][5])

\* a hunk at the end of a document with more than three words before it
C12_Witness ==
    /\ pc = "highlight"
    /\ \E k \in 1..Len(changes) :
          /\ HunkOps[k][2] > 3
          /\ Len(changes[k].before_context_before) = 3
          /\ changes[k].before_context_after = <<>>
          /\ HunkOps[k][3] = Len(BeforeWords)

\* C13: no hunk has the status equal; a hunk is a delete with words before
\* and none after, an insert with words after and none before, or a replace
\* with words on both sides.
C13_HunkStatusAndWords ==
    pc = "highlight" =>
        \A k \in 1..Len(changes) :
            /\ changes[k].status \in {"delete", "insert", "replace"}
            /\ changes[k].status = "delete" =>
                   changes[k].before # <<>> /\ changes[k].after = <<>>
            /\ changes[k].status = "insert" =>
                   changes[k].before = <<>> /\ changes[k].after # <<>>
            /\ changes[k].status = "replace" =>
                   changes[k].before # <<>> /\ changes[k].after # <<>>

\* a diff with an equal run left out and a hunk of each status
C13_Witness ==
    /\ pc = "highlight"
    /\ Len(changes) < Len(get_opcodes(BeforeWords, AfterWords))
    /\ \A st \in {"delete", "insert", "replace"} :
          \E k \in 1..Len(changes) : changes[k].status = st

\* C14: two documents with the same normalized text, the empty one and those
\* that differ in whitespace or non-breaking spaces only among them, have no
\* hunk.
C14_SameTextNoHunk ==
    (pc = "highlight" /\ _extract_clean_text(soup_before) = _extract_clean_text(soup_after))
        => changes = <<>>

\* two documents of several words that differ in their whitespace only
C14_Witness ==
    /\ pc = "highlight"
    /\ soup_before # soup_after
    /\ soup_get_text(soup_before) # soup_get_text(soup_after)
    /\ _extract_clean_text(soup_before) = _extract_clean_text(soup_after)
    /\ Len(BeforeWords) >= 2
    /\ changes = <<>>

(***************************************************************************)
(* The similarity                                                           *)
(***************************************************************************)
\* C15: the similarity of two texts that are not empty is 1 exactly when
\* their stripped, whitespace-collapsed forms are equal.
C15_OneIffSameNormalForm ==
    (pc = "similarity_done" /\ text1 # <<>> /\ text2 # <<>>) =>
        (RGe(out, One) <=> Collapse(Strip(text1)) = Collapse(Strip(text2)))

\* two different texts with the same normal form, which is not empty
C15_Witness ==
    /\ pc = "similarity_done"
    /\ text1 # text2
    /\ Collapse(Strip(text1)) = Collapse(Strip(text2))
    /\ Len(Collapse(Strip(text1))) >= 2
    /\ out = One

(***************************************************************************)
(* The order of the scan and the fallback in one call                       *)
(***************************************************************************)
\* C16: a call with an empty or whitespace-only target returns no match and
\* the error diagnostic at once: nothing is scanned or grouped and the tree
\* is as it was.
C16_EmptyTargetFailsFast ==
    (pc = "located" /\ Strip(out.target_text) = <<>>) =>
        /\ ~out.result.success
        /\ out.result.stage = "error"
        /\ out.result.debug_info.note = "error"
        /\ out.result.debug_info.total_candidates = 0
        /\ out.result.picked = <<>>
        /\ soup = out.soup

\* a whitespace-only target and a tree with text nodes
C16_Witness ==
    /\ pc = "located"
    /\ out.target_text = <<" ">>
    /\ Len(out.soup) >= 2
    /\ out.result.stage = "error"
    /\ soup = out.soup

\* a finished call whose target is not blank
TargetGiven == pc = "located" /\ Strip(out.target_text) # <<>>

\* C19 as stated: whenever the scan ends without an accepted candidate, no
\* node containing the target or the best one below the threshold, the
\* sequence fallback is run on the same tree.
C19_FallbackAfterEveryFailedScan ==
    (TargetGiven /\ ~(out.result.success /\ out.result.stage = "locator")) =>
        out.result.stage = "fallback"

\* C19 (amended): the sequence fallback is run on the same tree whenever no
\* text node contains the target.
C19_FallbackWhenNoNodeContains ==
    (TargetGiven /\ Candidates(out.soup, Strip(out.target_text)) = {}) =>
        /\ out.result.stage = "fallback"
        /\ ~out.result.success => soup = out.soup

\* no node contains the target and the fallback marks a group
C19_Witness ==
    /\ TargetGiven
    /\ Candidates(out.soup, Strip(out.target_text)) = {}
    /\ out.result.stage = "fallback"
    /\ out.result.success
    /\ Len(out.result.picked) >= 2

\* C20: when some text node contains the target the sequence fallback is not
\* run: no group is marked, whatever the scores of the candidates.
C20_NoFallbackWhenSomeNodeContains ==
    LocatorCase =>
        /\ out.result.stage = "locator"
        /\ Len(out.result.picked) <= 1
        /\ Len(soup) <= Len(out.soup) + 1
        /\ ~out.result.success => soup = out.soup /\ out.result.picked = <<>>

\* the only node that contains the target is below the threshold, and the
\* call reports no match
C20_Witness ==
    /\ LocatorCase
    /\ ~out.result.success
    /\ out.result.stage = "locator"
    /\ Len(out.soup) >= 3
    /\ soup = out.soup

(***************************************************************************)
(* The whole run                                                            *)
(***************************************************************************)
\* C18: the highlighting_result of a hunk is written once in a run: no step
\* of the run assigns it to a hunk that already carries one.
C18_ResultWrittenOnce ==
    [][(HighlightChange \/ HighlightChangeForDisplay) =>
          "highlighting_result" \notin DOMAIN changes[idx + 1]]_vars

\* the identities of the elements of a tree, in document order
IdsOf(tree) == Concat([k \in 1..Len(tree) |->
                          [m \in 1..Len(tree[k].path) |-> tree[k].path[m].id]])

FirstIndex(s, x) == CHOOSE i \in 1..Len(s) : s[i] = x /\ \A j \in 1..(i - 1) : s[j] # x

\* a tree with each element named by its place in document order, so that
\* two trees that differ in the identities of their elements only are equal
Canon(tree) ==
    [k \in 1..Len(tree) |->
        [text |-> tree[k].text,
         path |-> [m \in 1..Len(tree[k].path) |->
                      [tag |-> tree[k].path[m].tag,
                       cls |-> tree[k].path[m].cls,
                       id |-> FirstIndex(IdsOf(tree), tree[k].path[m].id)]]]]

\* what a call was given and what it returned, identities apart
CallView(highlighted, call) ==
    IF ~call.made THEN <<highlighted, FALSE>>
    ELSE <<highlighted, TRUE, Canon(call.soup), call.target_text, call.css_class,
           call.context, call.result.success, Canon(call.result.soup),
           call.result.stage, call.result.picked, call.result.debug_info>>

\* _apply_highlights_to_html on the first i hunks: the two trees as each
\* hunk leaves them and the results of the hunks
RECURSIVE Sequential(_)
Sequential(i) ==
    IF i = 0
    THEN [soup_before |-> before, soup_after |-> after, nextId |-> FirstId(MaxLeaves),
          trees |-> <<>>, results |-> <<>>]
    ELSE LET prev == Sequential(i - 1)
             r == _highlight_text_in_html(prev.soup_before, prev.soup_after,
                                          changes[i], i - 1, prev.nextId)
         IN  [soup_before |-> r.soup_before, soup_after |-> r.soup_after,
              nextId |-> r.nextId,
              trees |-> Append(prev.trees, <<r.soup_before, r.soup_after>>),
              results |-> Append(prev.results, r.result)]

\* the tree of one side (1 before, 2 after) after i hunks of the run
TreeAfter(run, side, i) ==
    IF i = 0 THEN (IF side = 1 THEN before ELSE after) ELSE run.trees[i][side]

\* the passes, at i hunks before and j hunks after, agree with the run
PassesAgree(run, ib, ia) ==
    /\ Canon(soup_before) = Canon(TreeAfter(run, 1, ib))
    /\ Canon(soup_after) = Canon(TreeAfter(run, 2, ia))
    /\ \A k \in 1..ib :
          CallView(out.before_calls[k][1], out.before_calls[k][2])
              = CallView(run.results[k].before_highlighted, run.results[k].before_call)
    /\ \A k \in 1..ia :
          CallView(out.after_calls[k][1], out.after_calls[k][2])
              = CallView(run.results[k].after_highlighted, run.results[k].after_call)

\* C17: however the steps of the two passes are ordered, the before-tree and
\* the before-side outcomes after i hunks of the before pass are those of the
\* sequential run after i hunks, whatever the after pass has done, and the
\* same for the after-tree.
C17_PassesAreIndependent ==
    pc \in {"highlight", "done"} =>
        PassesAgree(Sequential(Len(changes)), Len(out.before_calls), Len(out.after_calls))

\* the after pass has finished two hunks, marking the after-tree, before the
\* before pass has taken its first, and the sequential run marks both trees
C17_Witness ==
    /\ pc = "highlight"
    /\ Len(changes) >= 2
    /\ out.before_calls = <<>>
    /\ Len(out.after_calls) = 2
    /\ soup_after # after
    /\ soup_before = before
    /\ TreeAfter(Sequential(2), 1, 2) # before

\* the text nodes the scan of a call has as candidates in the tree given
ScanCount(tree, target) == Cardinality(Candidates(tree, Strip(target)))

\* call, if made, was given the tree as the hunk before it left it, counted
\* its candidates in that tree, and new is the tree as it leaves it
SearchedCurrent(call, current, new) ==
    IF call.made
    THEN /\ call.soup = current
         /\ new = call.result.soup
         /\ call.result.stage = "locator" =>
                call.result.debug_info.total_candidates = ScanCount(current, call.target_text)
    ELSE new = current

\* what a step of the loop, which handles hunk idx + 1, has to satisfy for C21
C21Step ==
    LET r == changes'[idx + 1].highlighting_result
    IN  /\ idx' = idx + 1
        /\ \A k \in 1..Len(changes) : k # idx + 1 => changes'[k] = changes[k]
        /\ SearchedCurrent(r.before_call, soup_before, soup_before')
        /\ SearchedCurrent(r.after_call, soup_after, soup_after')
        /\ \A x \in NewSpans(soup_before, soup_before') :
               \A y \in NewSpans(soup_after, soup_after') : x.id < y.id

\* C21: in a run of the loop the hunks are handled one at a time in
\* increasing diff index, for a replace hunk the before-tree and then the
\* after-tree; the search for a hunk is given the tree with every mutation of
\* the hunks before it and scans that tree anew, and no other hunk is touched
\* by the step.
C21_HunksInOrderOnCurrentTree ==
    /\ [][(HighlightChange \/ HighlightChangeForDisplay) => C21Step]_vars
    /\ [](pc = "highlight" => Processed = 1..idx)

\* a second hunk searched in a tree that the first has mutated, with a
\* candidate the parsed document does not have
C21_Witness ==
    /\ pc = "highlight"
    /\ \E k \in Processed :
          /\ k >= 2
          /\ changes[k].highlighting_result.before_call.made
          /\ changes[k].highlighting_result.before_call.soup # before
          /\ changes[k].highlighting_result.before_call.result.debug_info.total_candidates
                 > ScanCount(before, changes[k].highlighting_result.before_call.target_text)

(***************************************************************************)
(* The groups of the sequence fallback                                      *)
(***************************************************************************)
\* a finished call that went on to the sequence fallback
FallbackCase == TargetGiven /\ out.result.stage = "fallback"

\* the text nodes that passed the filter of the fallback and the groups made
\* of them, for the call that has finished
OutPartial == PartialMatches(out.soup, Strip(out.target_text), ABSOLUTE_THRESHOLD)
OutGroups == GroupCandidates(out.soup, OutPartial, <<>>)

\* the leaves of a tree: its text nodes outside script and style that are
\* not blank
Leaves(tree) == {k \in 1..Len(tree) : Scanned(tree, k) /\ NodeText(tree[k].text) # <<>>}

\* p and q are next to each other among the leaves and have one node as
\* their grandparent
AdjacentInRow(tree, p, q) ==
    /\ \A k \in Leaves(tree) : ~(p < k /\ k < q)
    /\ HasGrand(tree[p]) /\ HasGrand(tree[q])
    /\ Grand(tree[p]).id = Grand(tree[q]).id

\* partial, cut wherever two neighbours are not AdjacentInRow
RECURSIVE MaximalRuns(_, _, _)
MaximalRuns(tree, partial, current) ==
    IF partial = <<>> THEN (IF current # <<>> THEN <<current>> ELSE <<>>)
    ELSE IF current = <<>> \/ AdjacentInRow(tree, current[Len(current)], Head(partial))
    THEN MaximalRuns(tree, Tail(partial), Append(current, Head(partial)))
    ELSE <<current>> \o MaximalRuns(tree, Tail(partial), <<Head(partial)>>)

\* C22: the groups of the fallback are the maximal runs of partial-overlap
\* leaves that are adjacent in document order and have the same node as
\* grandparent: two such leaves with a non-matching leaf between them, or
\* with distinct grandparents, are in different groups.
C22_GroupsAreMaximalAdjacentRuns ==
    FallbackCase => OutGroups = MaximalRuns(out.soup, OutPartial, <<>>)

\* the groups of the finished call with the scores the code gave them
OutScored ==
    [g \in 1..Len(OutGroups) |->
        GroupScore(out.soup, OutGroups[g], Strip(out.target_text),
                   out.context[1], out.context[2])]

\* 0.2 * baseSimilarity + 0.8 * contextScore when contextScore > 0, and
\* baseSimilarity otherwise
WeightedScore(base_sim, context_score) ==
    IF RGt(context_score, Zero)
    THEN RAdd(RMul(base_sim, Frac(1, 5)), RMul(context_score, Frac(4, 5)))
    ELSE base_sim

\* C23: the finalScore of a group is 0.2 * baseSimilarity + 0.8 * contextScore
\* when contextScore > 0 and baseSimilarity otherwise; the fallback selects
\* the first of the groups with the greatest finalScore and accepts it
\* exactly when that score is greater than 0 and at least 0.2.
C23_BestGroupByWeightedScore ==
    FallbackCase =>
        LET scored == OutScored
            finals == [g \in 1..Len(scored) |->
                          WeightedScore(scored[g].base_sim, scored[g].context_score)]
            final(g) == finals[g]
            groups == 1..Len(scored)
        IN  /\ \A g \in groups : scored[g].final_score = final(g)
            /\ out.result.success <=>
                   \E g \in groups : RGt(final(g), Zero) /\ RGe(final(g), Frac(1, 5))
            /\ out.result.success =>
                   \E g \in groups :
                       /\ out.result.picked = scored[g].group
                       /\ \A h \in groups : RGe(final(g), final(h))
                       /\ \A h \in groups : h < g => ~RGe(final(h), final(g))
                       /\ out.result.debug_info.final_score = final(g)

\* two groups with the same, greatest score, and the first of them selected
C23_Witness ==
    /\ FallbackCase
    /\ out.result.success
    /\ LET scored == OutScored
       IN  /\ Len(scored) >= 2
           /\ out.result.picked = scored[1].group
           /\ \E h \in 2..Len(scored) : scored[h].final_score = scored[1].final_score

\* the greatest of the scores of the groups, 0 when there is none
RECURSIVE BestScore(_)
BestScore(scored) ==
    IF scored = <<>> THEN Zero
    ELSE LET rest == BestScore(Tail(scored))
         IN  IF RGe(Head(scored).final_score, rest) THEN Head(scored).final_score ELSE rest

\* the fallback formed groups and accepted none
GroupsRejected == FallbackCase /\ ~out.result.success /\ OutGroups # <<>>

\* C24: when the fallback formed groups of partial-overlap leaves and the
\* best group's finalScore is below 0.2, the diagnostics returned report no
\* match, the number of the candidate leaves considered and the best score
\* seen.
C24_RejectedGroupIsReported ==
    GroupsRejected =>
        /\ out.result.debug_info.matches_found = 0
        /\ out.result.debug_info.total_candidates = Len(OutPartial)
        /\ out.result.debug_info.best_similarity = BestScore(OutScored)

(***************************************************************************)
(* The cells around a group                                                 *)
(***************************************************************************)
\* every member of the group is the text of a cell of one and the same row
InsideRow(tree, group) ==
    \A m \in 1..Len(group) :
        /\ HasGrand(tree[group[m]])
        /\ Parent(tree[group[m]]).tag = "td"
        /\ Grand(tree[group[m]]).tag = "tr"
        /\ Grand(tree[group[m]]).id = Grand(tree[group[1]]).id

\* the place of the cell td among the cells of its row
CellPlace(tds, td) == CHOOSE i \in 1..Len(tds) : tds[i].id = td.id

\* the texts of the cell before the cell of the first member and of the cell
\* after the cell of the last member, None where the row has no such cell
NeighbourCells(tree, tds, first_place, last_place) ==
    << IF first_place > 1 THEN CellContext(tree, tds[first_place - 1]) ELSE None,
       IF last_place < Len(tds) THEN CellContext(tree, tds[last_place + 1]) ELSE None >>

CellsAround(tree, group) ==
    LET tds == find_all_td(tree, Grand(tree[group[1]]).id)
    IN  NeighbourCells(tree, tds, CellPlace(tds, Parent(tree[group[1]])),
                       CellPlace(tds, Parent(tree[group[Len(group)]])))

\* a finished call that went on to the fallback with a stored context
FallbackWithContext ==
    FallbackCase /\ (Truthy(out.context[1]) \/ Truthy(out.context[2]))

\* C25: for a group inside a row, actualBefore is the normalized text of the
\* cell just before the cell of the group's first member, absent when that
\* cell is the first of the row, and actualAfter that of the cell just after
\* the cell of the last member, absent at the end of the row, whatever the
\* contents of the cells of the row.
C25_ActualContextIsNeighbourCells ==
    FallbackWithContext =>
        LET scored == OutScored
        IN  \A g \in 1..Len(scored) :
                InsideRow(out.soup, scored[g].group) =>
                    <<scored[g].actual_before_context, scored[g].actual_after_context>>
                        = CellsAround(out.soup, scored[g].group)

(***************************************************************************)
(* The context given to the calls of a run                                  *)
(***************************************************************************)
\* the calls made for a hunk that has been handled
CallsOf(change) ==
    {call \in {change.highlighting_result.before_call,
               change.highlighting_result.after_call} : call.made}

\* the hunk has no word before it or no word after it on one of the sides
TouchesAnEnd(change) ==
    \/ change.before_context_before = <<>> \/ change.before_context_after = <<>>
    \/ change.after_context_before = <<>> \/ change.after_context_after = <<>>

\* the before-side contexts when both are non-empty, otherwise the
\* after-side contexts when both are non-empty, otherwise none
ContextPair(change) ==
    IF change.before_context_before # <<>> /\ change.before_context_after # <<>>
    THEN <<Join(change.before_context_before), Join(change.before_context_after)>>
    ELSE IF change.after_context_before # <<>> /\ change.after_context_after # <<>>
    THEN <<Join(change.after_context_before), Join(change.after_context_after)>>
    ELSE <<None, None>>

\* C26: every call made for a hunk is given both contexts non-empty or none
\* at all: the before-side contexts of the hunk when both are non-empty,
\* otherwise its after-side contexts when both are non-empty, otherwise no
\* context; a hunk at the start or the end of a document is searched without
\* context, and the two calls of a replace hunk are given the same pair.
C26_ContextPairBothOrNeither ==
    \A k \in Processed :
        \A call \in CallsOf(changes[k]) :
            /\ call.context = ContextPair(changes[k])
            /\ \/ Truthy(call.context[1]) /\ Truthy(call.context[2])
               \/ call.context = <<None, None>>
            /\ TouchesAnEnd(changes[k]) => call.context = <<None, None>>
            /\ call.context = <<changes[k].highlighting_result.context_before,
                                changes[k].highlighting_result.context_after>>

\* a replace hunk between unchanged words, searched in both trees with one
\* pair of contexts
C26_Witness ==
    /\ pc = "done"
    /\ \E k \in Processed :
          /\ changes[k].status = "replace"
          /\ ~TouchesAnEnd(changes[k])
          /\ Cardinality(CallsOf(changes[k])) = 2
          /\ \A call \in CallsOf(changes[k]) :
                /\ Truthy(call.context[1]) /\ Truthy(call.context[2])
                /\ call.context = ContextPair(changes[k])

(***************************************************************************)
(* The length of a containing leaf                                          *)
(***************************************************************************)
\* a finished call without context whose target is shorter than 200
\* characters, the length from which difflib applies its junk heuristic
ShortTargetNoContext ==
    /\ TargetGiven
    /\ out.context = <<None, None>>
    /\ Len(Strip(out.target_text)) < 200

\* C27: without context and with a target shorter than 200 characters, a
\* leaf that contains the target has basicSimilarity
\* 2 * |target| / (|leaf| + |target|) over the normalized lengths; when it is
\* the only leaf that contains the target it is accepted and marked exactly
\* when |leaf| <= 9 * |target|, and otherwise the tree stays as it was.
C27_ContainingLeafAcceptedByLength ==
    ShortTargetNoContext =>
        LET target == Strip(out.target_text)
            cands == Candidates(out.soup, target)
            leaf(k) == NodeText(out.soup[k].text)
        IN  /\ \A k \in cands :
                   _calculate_text_similarity(leaf(k), target)
                       = Rat(2 * Len(target), Len(leaf(k)) + Len(target))
            /\ \A k \in cands :
                   cands = {k} =>
                       /\ out.result.success <=> Len(leaf(k)) <= 9 * Len(target)
                       /\ out.result.success => out.result.picked = <<k>>
                       /\ out.result.debug_info.best_similarity
                              = Rat(2 * Len(target), Len(leaf(k)) + Len(target))
                       /\ ~out.result.success => soup = out.soup

\* the only containing leaf is exactly nine times as long as the target, and
\* is accepted, in a tree with other leaves
C27_Witness ==
    /\ ShortTargetNoContext
    /\ Len(out.soup) >= 2
    /\ \E k \in Candidates(out.soup, Strip(out.target_text)) :
          /\ Candidates(out.soup, Strip(out.target_text)) = {k}
          /\ Len(NodeText(out.soup[k].text)) = 9 * Len(Strip(out.target_text))
          /\ out.result.success
          /\ out.result.picked = <<k>>

(***************************************************************************)
(* The text that annotations add                                            *)
(***************************************************************************)
\* n is the text of a tooltip, placed in a marker by an earlier annotation
IsTooltip(n) == Parent(n).tag = "span" /\ Parent(n).cls = "highlight-tooltip"

\* the text nodes of the tree given to a call that its scan, or its
\* fallback, had as candidates
ConsideredBy(call) ==
    {call.soup[e] : e \in Candidates(call.soup, Strip(call.target_text))
                           \cup Range(PartialMatches(call.soup, Strip(call.target_text),
                                                     ABSOLUTE_THRESHOLD))}

\* C28: every text node selected for a hunk is a text node of the document
\* as it was parsed, and the text of a tooltip, which an earlier annotation
\* created, is neither a candidate of a later hunk's search nor selected by
\* it.
C28_OnlyParsedTextSearched ==
    \A k \in Processed :
        /\ \A n \in PickedOf(changes[k].highlighting_result.before_call) :
               n \in Range(before)
        /\ \A n \in PickedOf(changes[k].highlighting_result.after_call) :
               n \in Range(after)
        /\ \A call \in CallsOf(changes[k]) :
               \A n \in ConsideredBy(call) : ~IsTooltip(n)

(***************************************************************************)
(* The diagnostics of an accepted group                                     *)
(***************************************************************************)
\* C29: when the fallback accepts a group, the context score reported in the
\* diagnostics is the one computed for that group, whichever group was
\* scored last.
C29_ReportedContextIsOfBestGroup ==
    (FallbackCase /\ out.result.success) =>
        LET scored == OutScored
        IN  \E g \in 1..Len(scored) :
                /\ scored[g].group = out.result.picked
                /\ out.result.debug_info.group_context_score = scored[g].context_score

(***************************************************************************)
(* The distance between the hunks of the word diff                          *)
(***************************************************************************)
\* the spans of two hunks that follow each other, where both have one
PositionsInOrder(first, second) ==
    (first # None /\ second # None) => first[2] < second[1]

\* C30: the hunks come in strictly increasing position and do not touch:
\* between two consecutive hunks there is at least one word of each
\* sequence, the same on both sides, so every hunk but the first has
\* non-empty contexts before it and every hunk but the last has non-empty
\* contexts after it.
C30_HunksApartWithContexts ==
    pc = "highlight" =>
        LET ops == HunkOps
            bw == BeforeWords
            aw == AfterWords
        IN  /\ \A k \in 1..(Len(changes) - 1) :
                   /\ ops[k][3] < ops[k + 1][2]
                   /\ ops[k][5] < ops[k + 1][4]
                   /\ Slice(bw, ops[k][3], ops[k + 1][2]) = Slice(aw, ops[k][5], ops[k + 1][4])
                   /\ PositionsInOrder(changes[k].before_position,
                                       changes[k + 1].before_position)
                   /\ PositionsInOrder(changes[k].after_position,
                                       changes[k + 1].after_position)
                   /\ changes[k].before_context_after # <<>>
                   /\ changes[k].after_context_after # <<>>
            /\ \A k \in 2..Len(changes) :
                   /\ changes[k].before_context_before # <<>>
                   /\ changes[k].after_context_before # <<>>

\* three hunks, the first at the start of both documents and the last at
\* their end
C30_Witness ==
    /\ pc = "highlight"
    /\ Len(changes) >= 3
    /\ changes[1].before_context_before = <<>>
    /\ changes[1].after_context_before = <<>>
    /\ changes[Len(changes)].before_context_after = <<>>
    /\ changes[Len(changes)].after_context_after = <<>>
    /\ changes[2].before_context_before # <<>>
    /\ changes[2].after_context_after # <<>>

====
